---- MODULE Spec2Model ----
(***************************************************************************)
(* Model of rmbloat's job-execution monitor and metadata cache:            *)
(*   ProbeCache  (src/rmbloat/ProbeCache.py)                               *)
(*   FfmpegMon   (src/rmbloat/FfmpegMon.py)                                *)
(*   JobHandler  (src/rmbloat/JobHandler.py)                               *)
(*                                                                         *)
(* Conventions.  Python strings that the code parses (anomaly markers,     *)
(* output lines) are sequences of one-character strings, so startswith,    *)
(* indexing, int() and f-string formatting are computed.  Python None is   *)
(* NoneVal for a string-valued field and NoMeta for a record.  File sizes  *)
(* are counted in MiB.                                                     *)
(***************************************************************************)
EXTENDS Integers, Sequences, FiniteSets, TLC

VARIABLES
    files,        \* media files on disk: path -> size (a path not in DOMAIN does not exist)
    cache_data,   \* ProbeCache.cache_data: path -> stored dict
    dirty_count,  \* ProbeCache._dirty_count
    cache_file,   \* the file at cache_path
    tmp_file,     \* the file at cache_path + ".tmp"
    store_pc,     \* position of a store() in progress (stepwise store only)
    committed,    \* history: content of cache_path when the store in progress began
    pending,      \* history: the map the store in progress is writing
    last,         \* history: the last ProbeCache call and what it returned
    streak,       \* history: path -> tool failures in a row on the unchanged file, counted
                  \* from a path without failure marker (MaxStreak + 1: not known)
    mon,          \* the FfmpegMon instance: process, partial_line, output_queue,
                  \* return_code, temp_file
    proc,         \* the encoder process as the OS has it: state, exit code, stderr pipe
    written,      \* history: every byte the process wrote to stderr
    delivered,    \* history: the lines poll() returned
    mon_last,     \* history: the last FfmpegMon call and what it returned
    run,          \* history: whether start() and stop() were called on the instance
    now,          \* time.monotonic(), in seconds
    progress_line_mono,  \* JobHandler.progress_line_mono
    texts,        \* vid.texts: the diagnostic lines kept for the job's video
    vid_rc,       \* vid.return_code
    job_last,     \* history: the last get_job_progress call, what it returned,
                  \* whether it came after more than progress_secs_max without
                  \* progress, and the progress updates returned so far
    vid,          \* the video of the job: gb, net, doit, basename1
    opts,         \* the options of the run
    auto,         \* JobHandler's auto mode vitals
    jobs,         \* jobs finalized so far, and whether one awaits finalization
    fin,          \* history: the last finish_transcode_job call
    batch,        \* batch_get_or_probe: the main thread's position and locals
    futs,         \* the futures of the batch, by path
    lock,         \* who holds _cache_lock
    unlocked,     \* history: mutations of the cache made without the lock
    okseen,       \* history: results the merge loop or the salvage pass found done
    converter     \* the Converter of window mode: state, not_help_state, job, the
                  \* videos with doit and doit_auto, spins.help_mode,
                  \* auto_mode_enabled, the accepted search and visible_vids;
                  \* the Job objects alive; the main loop's position; history:
                  \* the state in which the help screen was entered

cacheVars == <<files, cache_data, dirty_count, cache_file, tmp_file, store_pc,
               committed, pending, last, streak>>

cacheOnlyVars == <<cache_data, dirty_count, cache_file, tmp_file, store_pc,
                   committed, pending, last, streak>>

monVars == <<mon, proc, written, delivered, mon_last, run>>

jobVars == <<now, progress_line_mono, texts, vid_rc, job_last>>

\* what the ProbeCache operations leave alone, what the FfmpegMon ones do,
\* and what the JobHandler ones do
finVars == <<vid, opts, auto, jobs, fin>>

batchVars == <<batch, futs, lock, unlocked, okseen>>

windowVars == <<converter>>

notCacheVars == <<monVars, jobVars, finVars, batchVars, windowVars>>
notMonVars == <<cacheOnlyVars, jobVars, finVars, batchVars, windowVars>>
notJobVars == <<cacheOnlyVars, finVars, batchVars, windowVars>>
notFinVars == <<store_pc, committed, pending, last, streak, monVars,
                now, progress_line_mono, job_last, batchVars, windowVars>>
notBatchVars == <<files, store_pc, committed, pending, last, streak, monVars,
                  jobVars, finVars, windowVars>>
notWindowVars == <<cacheVars, monVars, jobVars, vid, opts, auto, jobs, fin, batchVars>>

vars == <<cacheVars, monVars, jobVars, finVars, batchVars, windowVars>>

----------------------------------------------------------------------------
(* Bounds                                                                  *)

MaxSize == 1          \* file sizes range over 0..MaxSize
MaxStreak == 3        \* failing probes in a row that are explored per path
MaxDirty == 2         \* unflushed mutations explored before a store is forced

Paths == {"/v/a.mkv"}
TempPath == "TEMP.a.mkv"

\* what ffprobe finds in a file: the encoder's output is HEVC
CodecOf(p) == IF p = TempPath THEN "hevc" ELSE "h264"
FileSizes == 0..MaxSize

----------------------------------------------------------------------------
(* Python values                                                           *)

NoneVal == <<"None">>
NoMeta == [none |-> TRUE]
EmptyMap == [x \in {} |-> NoMeta]

Truthy(s) == s # NoneVal /\ s # <<>>

Put(m, k, v) == [x \in DOMAIN m \cup {k} |-> IF x = k THEN v ELSE m[x]]
Del(m, k) == [x \in DOMAIN m \ {k} |-> m[x]]

DigitChars == <<"0", "1", "2", "3", "4", "5", "6", "7", "8", "9">>
IsDigit(ch) == \E i \in 1..Len(DigitChars) : DigitChars[i] = ch
\* int(ch) for a digit character
DigitOf(ch) == (CHOOSE i \in 1..Len(DigitChars) : DigitChars[i] = ch) - 1
\* f'{n}' for 0 <= n <= 9
DigitChar(n) == DigitChars[n + 1]

StartsWith(s, pre) ==
    /\ s # NoneVal
    /\ Len(s) >= Len(pre)
    /\ SubSeq(s, 1, Len(pre)) = pre

Min(a, b) == IF a <= b THEN a ELSE b

\* the anomaly vocabulary
PFail(n) == <<"?", "P", DigitChar(n)>>
ErN(n) == <<"E", "r", DigitChar(n)>>
OPT == <<"O", "P", "T">>
Err == <<"E", "r", "r">>
SKP == <<"-", "-", "-">>
DUN == <<"D", "U", "N">>

\* round(num / den) as Python 3 rounds (ties to even), den > 0, num >= 0
RoundDiv(num, den) ==
    LET q == num \div den
        r == num % den
    IN  IF 2 * r < den THEN q
        ELSE IF 2 * r > den THEN q + 1
        ELSE IF q % 2 = 0 THEN q ELSE q + 1

----------------------------------------------------------------------------
(* ProbeCache                                                              *)

disk_fields == {"anomaly", "width", "height", "codec", "bitrate", "fps",
                "duration", "size_bytes", "color_spt"}

MiBPerGiB == 1024

\* what a successful ffprobe run extracts from a file of the given size
ProbeFields(size) ==
    [anomaly |-> NoneVal, width |-> 100, height |-> 100, codec |-> "h264",
     color_spt |-> "bt709,~,~", bitrate |-> 2, duration |-> 60, fps |-> 24,
     size_bytes |-> size]

\* the minimal record _increment_probe_failure stores
Placeholder(anomaly) ==
    [anomaly |-> anomaly, width |-> 0, height |-> 0, codec |-> "---",
     bitrate |-> 0, fps |-> 0, duration |-> 0, size_bytes |-> 0,
     color_spt |-> "unknown,~,~"]

BloatCap == 50

\* int(round((bitrate / math.sqrt(area)) * 1000)), computed without square roots
Bloat(bitrate, area) ==
    IF area > 0
    THEN LET t == (2000 * bitrate) * (2000 * bitrate)
             ok(b) == /\ (2 * b - 1) * (2 * b - 1) * area <= t
                      /\ t <= (2 * b + 1) * (2 * b + 1) * area
             cands == {b \in 0..BloatCap : ok(b)}
         IN  IF \E b \in cands : b % 2 = 0
             THEN CHOOSE b \in cands : b % 2 = 0
             ELSE CHOOSE b \in cands : TRUE
    ELSE 0

\* round(size_bytes / 2**30, 3), in thousandths of a GiB
Gb(size) == RoundDiv(size * 1000, MiBPerGiB)

ComputeFields(meta) ==
    [f \in DOMAIN meta \cup {"bloat", "gb"} |->
        IF f = "bloat" THEN Bloat(meta.bitrate, meta.width * meta.height)
        ELSE IF f = "gb" THEN Gb(meta.size_bytes)
        ELSE meta[f]]

\* dict(vars(meta)) without 'gb' and 'bloat'
StripDerived(meta) == [f \in DOMAIN meta \ {"gb", "bloat"} |-> meta[f]]

\* The cache state handed through the operators below:
\*   [cache_data, dirty_count, cache_file, tmp_file]
CState(cd, dc, cf, tf) ==
    [cache_data |-> cd, dirty_count |-> dc, cache_file |-> cf, tmp_file |-> tf]

NoFile == [exists |-> FALSE, complete |-> TRUE, data |-> EmptyMap]
FullFile(data) == [exists |-> TRUE, complete |-> TRUE, data |-> data]

\* _set_cache that stores the record as it was handed over
SetCacheWithDerived(c, p, meta) ==
    [c EXCEPT !.cache_data = Put(c.cache_data, p, meta),
              !.dirty_count = c.dirty_count + 1]

SetCache(c, p, meta) ==
    [c EXCEPT !.cache_data = Put(c.cache_data, p, StripDerived(meta)),
              !.dirty_count = c.dirty_count + 1]

\* the number _increment_probe_failure puts after '?P'
NextProbeFailure(current) ==
    IF Truthy(current) /\ StartsWith(current, <<"?", "P">>)
    THEN IF Len(current) >= 3 /\ IsDigit(current[3])
         THEN Min(DigitOf(current[3]) + 1, 9)
         ELSE 1
    ELSE 1

IncrementProbeFailure(c, p) ==
    LET current == IF p \in DOMAIN c.cache_data /\ "anomaly" \in DOMAIN c.cache_data[p]
                   THEN c.cache_data[p].anomaly
                   ELSE NoneVal
    IN  SetCache(c, p, Placeholder(PFail(NextProbeFailure(current))))

LoadProbeData(c, p) == ComputeFields(c.cache_data[p])

Invalidate(c, p) ==
    [c EXCEPT !.cache_data = Del(c.cache_data, p),
              !.dirty_count = c.dirty_count + 1]

\* a retry test without the cap: every ?Pn marker asks for another probe
RetryableThrough9(anomaly) ==
    /\ Truthy(anomaly)
    /\ StartsWith(anomaly, <<"?", "P">>)
    /\ Len(anomaly) >= 3
    /\ IsDigit(anomaly[3])

\* a cached ?P1..?P8 marker asks for another probe
Retryable(anomaly) ==
    /\ Truthy(anomaly)
    /\ StartsWith(anomaly, <<"?", "P">>)
    /\ Len(anomaly) >= 3
    /\ IsDigit(anomaly[3])
    /\ DigitOf(anomaly[3]) < 9

\* _get_valid_entry with a size comparison that never finds the sizes equal
GetValidEntryAlwaysStale(c, fs, p) ==
    [c |-> IF p \in DOMAIN c.cache_data THEN Invalidate(c, p) ELSE c,
     meta |-> NoMeta]

\* returns [c, meta]
GetValidEntry(c, fs, p) ==
    IF p \notin DOMAIN fs
    THEN [c |-> IF p \in DOMAIN c.cache_data THEN Invalidate(c, p) ELSE c,
          meta |-> NoMeta]
    ELSE IF p \in DOMAIN c.cache_data
    THEN IF DOMAIN c.cache_data[p] # disk_fields
         THEN [c |-> Invalidate(c, p), meta |-> NoMeta]
         ELSE IF c.cache_data[p].size_bytes # fs[p]
         THEN [c |-> Invalidate(c, p), meta |-> NoMeta]
         ELSE IF Retryable(c.cache_data[p].anomaly)
         THEN [c |-> c, meta |-> NoMeta]
         ELSE [c |-> c, meta |-> LoadProbeData(c, p)]
    ELSE [c |-> c, meta |-> NoMeta]

\* what one run of the external probe can end in
ProbeOutcomes == {"ok", "CalledProcessError", "JSONDecodeError", "NoVideoStream",
                  "TimeoutExpired"}
CountedFailures == {"CalledProcessError", "JSONDecodeError", "FileNotFoundError",
                    "IOError"}

\* returns [c, meta, exc, probed]
GetMetadataWithFfprobe(c, fs, p, outcome) ==
    IF p \notin DOMAIN fs
    THEN [c |-> c, meta |-> NoMeta, exc |-> "", probed |-> FALSE]
    ELSE IF outcome = "ok"
    THEN [c |-> c, meta |-> [ProbeFields(fs[p]) EXCEPT !.codec = CodecOf(p)],
          exc |-> "", probed |-> TRUE]
    ELSE IF outcome \in CountedFailures
    THEN [c |-> IncrementProbeFailure(c, p), meta |-> NoMeta, exc |-> "", probed |-> TRUE]
    ELSE IF outcome = "NoVideoStream"
    THEN [c |-> c, meta |-> NoMeta, exc |-> "", probed |-> TRUE]
    ELSE [c |-> c, meta |-> NoMeta, exc |-> outcome, probed |-> TRUE]

Returned(meta) == [kind |-> "meta", meta |-> meta]
Raised(exc) == [kind |-> "raise", exc |-> exc]

\* returns [c, ret, probed]
Get(c, fs, p, outcome) ==
    LET v == GetValidEntry(c, fs, p)
    IN  IF v.meta # NoMeta
        THEN [c |-> v.c, ret |-> Returned(v.meta), probed |-> FALSE]
        ELSE LET g == GetMetadataWithFfprobe(v.c, fs, p, outcome)
             IN  IF g.exc # ""
                 THEN [c |-> g.c, ret |-> Raised(g.exc), probed |-> g.probed]
                 ELSE IF g.meta # NoMeta
                 THEN [c |-> SetCache(g.c, p, g.meta),
                       ret |-> Returned(ComputeFields(g.meta)),
                       probed |-> g.probed]
                 \* _compute_fields(None): None has no attribute 'width'
                 ELSE [c |-> g.c, ret |-> Raised("AttributeError"), probed |-> g.probed]

\* store(), start to end; io is what the file system answers
StoreOutcomes == {"ok", "IOError"}

\* store() that dumps the records with their derived fields
StoreDerived(c, io) ==
    IF c.dirty_count > 0
    THEN IF io = "ok"
         THEN [c EXCEPT !.cache_file =
                           FullFile([p \in DOMAIN c.cache_data |->
                                        ComputeFields(c.cache_data[p])]),
                        !.tmp_file = NoFile,
                        !.dirty_count = 0]
         ELSE [c EXCEPT !.tmp_file = NoFile]
    ELSE c

Store(c, io) ==
    IF c.dirty_count > 0
    THEN IF io = "ok"
         THEN [c EXCEPT !.cache_file = FullFile(c.cache_data),
                        !.tmp_file = NoFile,
                        !.dirty_count = 0]
         ELSE [c EXCEPT !.tmp_file = NoFile]
    ELSE c

IsWordChar(ch) == ch \notin {"-", "?", " ", ".", ":"}
Lower(ch) == IF ch = "E" THEN "e" ELSE IF ch = "R" THEN "r" ELSE ch

\* re.match(r'^\bEr(\d)\b', s, re.IGNORECASE)
MatchErDigit(s) ==
    /\ s # NoneVal
    /\ Len(s) >= 3
    /\ Lower(s[1]) = "e"
    /\ Lower(s[2]) = "r"
    /\ IsDigit(s[3])
    /\ (Len(s) = 3 \/ ~IsWordChar(s[4]))

\* set_anomaly that stores the requested value as it was passed
EscalatedAnomalyLiteral(stored, anomaly) == anomaly

\* the value set_anomaly writes for a requested value, given the stored one
EscalatedAnomaly(stored, anomaly) ==
    IF StartsWith(anomaly, <<"E", "r">>)
    THEN IF ~Truthy(stored)
         THEN ErN(1)
         ELSE IF MatchErDigit(stored)
         THEN IF DigitOf(stored[3]) <= 8
              THEN ErN(DigitOf(stored[3]) + 1)
              ELSE ErN(9)
         ELSE anomaly
    ELSE anomaly

\* set_anomaly that leaves the flush to a later store()
SetAnomalyNoFlush(c, fs, p, anomaly, io) ==
    LET v == GetValidEntry(c, fs, p)
    IN  IF v.meta # NoMeta
        THEN LET a == EscalatedAnomaly(v.meta.anomaly, anomaly)
                 m == [v.meta EXCEPT !.anomaly = a]
             IN  IF v.meta.anomaly # a
                 THEN [c |-> SetCache(v.c, p, m), ret |-> Returned(m)]
                 ELSE [c |-> v.c, ret |-> Returned(v.meta)]
        ELSE [c |-> v.c, ret |-> Returned(NoMeta)]

\* returns [c, ret]
SetAnomaly(c, fs, p, anomaly, io) ==
    LET v == GetValidEntry(c, fs, p)
    IN  IF v.meta # NoMeta
        THEN LET a == EscalatedAnomaly(v.meta.anomaly, anomaly)
                 m == [v.meta EXCEPT !.anomaly = a]
             IN  IF v.meta.anomaly # a
                 THEN [c |-> Store(SetCache(v.c, p, m), io), ret |-> Returned(m)]
                 ELSE [c |-> v.c, ret |-> Returned(v.meta)]
        ELSE [c |-> v.c, ret |-> Returned(NoMeta)]

RECURSIVE PurgeKeys(_, _, _)
PurgeKeys(c, fs, keys) ==
    IF keys = {} THEN c
    ELSE LET p == CHOOSE k \in keys : TRUE
         IN  PurgeKeys(GetValidEntry(c, fs, p).c, fs, keys \ {p})

\* load(): a cache file that does not parse leaves an empty map
Load(c, fs) ==
    IF c.cache_file.exists
    THEN LET read == IF c.cache_file.complete THEN c.cache_file.data ELSE EmptyMap
             c1 == [c EXCEPT !.cache_data = read]
         IN  PurgeKeys(c1, fs, DOMAIN read)
    ELSE c

\* __init__: empty map, clean, then load()
Construct(cf, tf, fs) == Load(CState(EmptyMap, 0, cf, tf), fs)

----------------------------------------------------------------------------
(* FfmpegMon                                                               *)

MaxStream == 3        \* bytes the encoder writes to stderr in one run

\* stderr bytes: a text byte, the two line terminators, a byte that is not UTF-8
Bytes == {"a", "CR", "LF", "BAD"}
ExitCodes == {0, 1}

NoCode == <<>>
Code(n) == <<n>>

BytesBuf(data) == [type |-> "bytes", data |-> data]
StrBuf(data) == [type |-> "str", data |-> data]

\* FfmpegMon.__init__
FreshMon ==
    [process |-> "None", partial_line |-> BytesBuf(<<>>), output_queue |-> <<>>,
     return_code |-> NoCode, temp_file |-> NoneVal]

\* nonblock: O_NONBLOCK is set on the read end of the stderr pipe
NoProc == [state |-> "none", code |-> NoCode, pipe |-> <<>>, nonblock |-> FALSE]

\* re.split(b'[\r\n]', data): the fragments between the terminators
RECURSIVE Split(_)
Split(data) ==
    IF data = <<>> THEN << <<>> >>
    ELSE LET rest == Split(Tail(data))
         IN  IF Head(data) \in {"CR", "LF"}
             THEN << <<>> >> \o rest
             ELSE << <<Head(data)>> \o Head(rest) >> \o Tail(rest)

IsText(b) == b # "BAD"
\* bytes.decode('utf-8', errors='ignore')
Decode(bytes) == SelectSeq(bytes, IsText)

NonEmpty(frag) == frag # <<>>
\* the complete fragments that are queued: the empty ones are skipped
QueuedLines(frags) ==
    LET kept == SelectSeq(frags, NonEmpty)
    IN  [i \in 1..Len(kept) |-> Decode(kept[i])]

Front(q) == SubSeq(q, 1, Len(q) - 1)
Last(q) == q[Len(q)]

RetLine(line) == [kind |-> "line", line |-> line]
RetCode(n) == [kind |-> "code", code |-> n]
RetNone == [kind |-> "none"]
RetRaise(exc) == [kind |-> "raise", exc |-> exc]

\* a poll() without process that forgets the stored code
RetStoredForgotten(rc) == RetNone

\* what `return self.return_code` hands back
RetStored(rc) == IF rc = NoCode THEN RetNone ELSE RetCode(rc[1])

\* the process is done and the final fragment is thrown away
FlushPartialDropped(m) == [m EXCEPT !.partial_line = BytesBuf(<<>>)]

\* the process is done: what is left in partial_line becomes the final line
FlushPartial(m) ==
    IF m.partial_line.data # <<>>
    THEN [m EXCEPT !.output_queue = Append(@, Decode(m.partial_line.data)),
                   !.partial_line = BytesBuf(<<>>)]
    ELSE m

\* poll(): returns [mon, proc, ret]
Poll(m, pr) ==
    IF m.output_queue # <<>>
    THEN [mon |-> [m EXCEPT !.output_queue = Tail(@)], proc |-> pr,
          ret |-> RetLine(Head(m.output_queue))]
    ELSE IF m.process = "None"
    THEN [mon |-> m, proc |-> pr, ret |-> RetStored(m.return_code)]
    ELSE
      LET process_status == IF pr.state = "exited" THEN pr.code ELSE NoCode
          chunk == pr.pipe
          pr1 == [pr EXCEPT !.pipe = <<>>]
      IN  IF chunk # <<>> /\ m.partial_line.type # "bytes"
          THEN \* self.partial_line + chunk: str + bytes
               [mon |-> m, proc |-> pr1, ret |-> RetRaise("TypeError")]
          ELSE
            LET fragments == Split(m.partial_line.data \o chunk)
                m1 == IF chunk # <<>>
                      THEN [m EXCEPT !.partial_line = BytesBuf(Last(fragments)),
                                     !.output_queue = @ \o QueuedLines(Front(fragments))]
                      ELSE m
            IN  IF process_status # NoCode
                THEN LET m2 == FlushPartial(m1)
                     IN  IF m2.output_queue # <<>>
                         THEN [mon |-> [m2 EXCEPT !.return_code = process_status,
                                                  !.output_queue = Tail(@)],
                               proc |-> pr1,
                               ret |-> RetLine(Head(m2.output_queue))]
                         ELSE [mon |-> [m2 EXCEPT !.return_code = process_status,
                                                  !.process = "None"],
                               proc |-> pr1,
                               ret |-> RetCode(process_status[1])]
                ELSE IF m1.output_queue # <<>>
                THEN [mon |-> [m1 EXCEPT !.output_queue = Tail(@)], proc |-> pr1,
                      ret |-> RetLine(Head(m1.output_queue))]
                ELSE [mon |-> m1, proc |-> pr1, ret |-> RetNone]

\* the system calls of one poll(): the exit-status checks (process.poll()),
\* the reads of the pipe (stderr.read()), and whether a read has to wait: a
\* read in blocking mode returns only when the encoder has closed the pipe
PollCalls(m, pr) ==
    IF m.output_queue # <<>> \/ m.process = "None"
    THEN [checks |-> 0, reads |-> 0, waits |-> FALSE]
    ELSE [checks |-> 1, reads |-> 1,
          waits |-> ~pr.nonblock /\ pr.state = "running"]

SigTerm == 15

\* stop() that returns as soon as it has terminated a running process
StopTerminateOnly(m, pr, fs, code) ==
    IF m.process # "None" /\ pr.state = "running"
    THEN [mon |-> m,
          proc |-> [pr EXCEPT !.state = "exited", !.code = Code(0 - SigTerm)],
          fs |-> fs]
    ELSE [mon |-> [m EXCEPT !.temp_file = NoneVal,
                            !.process = "None",
                            !.partial_line = StrBuf(<<>>),
                            !.return_code = Code(code)],
          proc |-> pr,
          fs |-> IF m.temp_file # NoneVal /\ m.temp_file[1] \in DOMAIN fs
                 THEN Del(fs, m.temp_file[1]) ELSE fs]

\* stop(return_code): returns [mon, proc, fs]
Stop(m, pr, fs, code) ==
    LET pr1 == IF m.process # "None" /\ pr.state = "running"
               THEN [pr EXCEPT !.state = "exited", !.code = Code(0 - SigTerm)]
               ELSE pr
        fs1 == IF m.temp_file # NoneVal /\ m.temp_file[1] \in DOMAIN fs
               THEN Del(fs, m.temp_file[1])
               ELSE fs
    IN  [mon |-> [m EXCEPT !.temp_file = NoneVal,
                           !.process = "None",
                           !.partial_line = StrBuf(<<>>),
                           !.return_code = Code(code)],
         proc |-> pr1, fs |-> fs1]

SpawnFailed == 127

\* start() without the fcntl calls: the pipe stays in blocking mode
StartBlocking(m, pr, temp_file, spawns) ==
    LET m1 == [m EXCEPT !.temp_file = temp_file]
    IN  IF m.process # "None"
        THEN [mon |-> m1, proc |-> pr, exc |-> "RuntimeError"]
        ELSE IF spawns
        THEN [mon |-> [m1 EXCEPT !.process = "Popen"],
              proc |-> [state |-> "running", code |-> NoCode, pipe |-> <<>>,
                        nonblock |-> FALSE],
              exc |-> ""]
        ELSE [mon |-> [m1 EXCEPT !.return_code = Code(SpawnFailed)],
              proc |-> pr, exc |-> ""]

\* start() that swallows the spawn failure without recording a code
StartSilentFailure(m, pr, temp_file, spawns) ==
    LET m1 == [m EXCEPT !.temp_file = temp_file]
    IN  IF m.process # "None"
        THEN [mon |-> m1, proc |-> pr, exc |-> "RuntimeError"]
        ELSE IF spawns
        THEN [mon |-> [m1 EXCEPT !.process = "Popen"],
              proc |-> [state |-> "running", code |-> NoCode, pipe |-> <<>>,
                       nonblock |-> TRUE],
              exc |-> ""]
        ELSE [mon |-> m1, proc |-> pr, exc |-> ""]

\* start(command_line, temp_file): returns [mon, proc, exc]
Start(m, pr, temp_file, spawns) ==
    LET m1 == [m EXCEPT !.temp_file = temp_file]
    IN  IF m.process # "None"
        THEN [mon |-> m1, proc |-> pr, exc |-> "RuntimeError"]
        ELSE IF spawns
        THEN [mon |-> [m1 EXCEPT !.process = "Popen"],
              proc |-> [state |-> "running", code |-> NoCode, pipe |-> <<>>,
                       nonblock |-> TRUE],
              exc |-> ""]
        ELSE [mon |-> [m1 EXCEPT !.return_code = Code(SpawnFailed)],
              proc |-> pr, exc |-> ""]

NoMonCall == [op |-> "init", ret |-> RetNone]
NotRun == [started |-> FALSE, stopped |-> FALSE]

MonitorIdle ==
    /\ mon = FreshMon
    /\ proc = NoProc
    /\ written = <<>>
    /\ delivered = <<>>
    /\ mon_last = NoMonCall
    /\ run = NotRun

----------------------------------------------------------------------------
(* JobHandler.get_job_progress                                             *)

ProgressSecsMax == 30
ProgressThrottle == 3
ProgressTimeout == 254
FarFuture == 1000000000

\* PROGRESS_RE.search(line): the line holds a frame counter ("F" stands for a
\* 'frame=<digits> ' token)
IsProgress(line) == \E i \in 1..Len(line) : line[i] = "F"

TimeoutText == <<"PROGRESS TIMEOUT">>

\* no progress for too long
StalledNever(t, mono) == FALSE

\* now_mono - self.progress_line_mono > secs_max
Stalled(t, mono) == t - mono > ProgressSecsMax

RetProgress == [kind |-> "progress"]

\* a progress line is handed on whenever one arrives
ThrottledNever(t, mono) == FALSE

\* now_mono - self.progress_line_mono < 3: too soon for another update
Throttled(t, mono) == t - mono < ProgressThrottle

\* The loop of get_job_progress from the state j = [mon, proc, fs, texts, mono,
\* rc] at time t; returns j with the value handed back in got.  The text of a
\* progress update is not modelled, only that one is returned.  polled keeps
\* the lines poll() handed to the loop during the call.
RECURSIVE JobProgressLoop(_, _)
JobProgressLoop(j, t) ==
    LET r == Poll(j.mon, j.proc)
        j1 == [j EXCEPT !.mon = r.mon, !.proc = r.proc,
                        !.polled = IF r.ret.kind = "line"
                                   THEN Append(@, r.ret.line) ELSE @]
    IN  IF r.ret.kind = "raise"
        THEN [j1 EXCEPT !.got = r.ret]
        ELSE IF Stalled(t, j.mono)
        THEN LET st == Stop(j1.mon, j1.proc, j1.fs, ProgressTimeout)
             IN  JobProgressLoop(
                     [j1 EXCEPT !.texts = Append(@, TimeoutText),
                                !.mon = st.mon, !.proc = st.proc, !.fs = st.fs,
                                !.mono = t + FarFuture], t)
        ELSE IF r.ret.kind = "line"
        THEN IF ~IsProgress(r.ret.line)
             THEN JobProgressLoop([j1 EXCEPT !.texts = Append(@, r.ret.line)], t)
             ELSE IF Throttled(t, j1.mono)
             THEN JobProgressLoop(j1, t)
             ELSE [j1 EXCEPT !.mono = t, !.got = RetProgress]
        ELSE IF r.ret.kind = "code"
        THEN [j1 EXCEPT !.rc = Code(r.ret.code), !.got = r.ret]
        ELSE [j1 EXCEPT !.got = r.ret]

GetJobProgress(m, pr, fs, tx, mono, rc, t) ==
    JobProgressLoop([mon |-> m, proc |-> pr, fs |-> fs, texts |-> tx, mono |-> mono,
                     rc |-> rc, got |-> RetNone, polled |-> <<>>], t)

\* start: when the job was started; mark: when it was started or its last
\* update was returned; spaced: whether the last update came ProgressThrottle
\* seconds or more after mark
NoJobCall == [op |-> "init", got |-> RetNone, quiet |-> FALSE, updates |-> 0,
              start |-> 0, mark |-> 0, spaced |-> TRUE]

JobIdle ==
    /\ now = 0
    /\ progress_line_mono = 0
    /\ texts = <<>>
    /\ vid_rc = NoCode
    /\ job_last = NoJobCall

----------------------------------------------------------------------------
(* JobHandler.finish_transcode_job                                         *)

Orig == "/v/a.mkv"                 \* vid.filepath
StandardName == "/v/a.x265.mkv"    \* vid.standard_name
OrigBackup == "ORIG.a.mkv"         \* job.orig_backup_file

\* Converter.is_allowed_codec
IsAllowedCodec(allowed_codecs, probe) ==
    IF probe = NoMeta THEN TRUE
    ELSE IF probe.codec = "---" THEN TRUE
    ELSE IF allowed_codecs = "x265" THEN probe.codec = "hevc"
    ELSE IF allowed_codecs = "x26*" THEN probe.codec \in {"hevc", "h264"}
    ELSE allowed_codecs = "all"

\* the percentage cut to an integer instead of rounded
NetTruncated(vgb, pgb) ==
    IF vgb >= pgb THEN 0 - ((100 * (vgb - pgb)) \div vgb)
    ELSE (100 * (pgb - vgb)) \div vgb

\* int(round(-((vid.gb - probe.gb) / vid.gb) * 100)), gb in thousandths
Net(vgb, pgb) ==
    IF vgb >= pgb THEN 0 - RoundDiv(100 * (vgb - pgb), vgb)
    ELSE RoundDiv(100 * (pgb - vgb), vgb)

SeverityThreshold == 30
CorruptText == <<"CORRUPT VIDEO">>

\* the score of the first known signal found in a line ("X" stands for
\* 'corrupt decoded frame', "c" for 'concealing')
RECURSIVE TotalSeverity(_)
TotalSeverity(tx) ==
    IF tx = <<>> THEN 0
    ELSE TotalSeverity(Tail(tx)) +
         (IF \E i \in 1..Len(Head(tx)) : Head(tx)[i] = "X" THEN 10
          ELSE IF \E i \in 1..Len(Head(tx)) : Head(tx)[i] = "c" THEN 2
          ELSE 0)

ElaborateErr(tx, rc) ==
    IF rc # Code(0) /\ TotalSeverity(tx) >= SeverityThreshold
    THEN Append(tx, CorruptText)
    ELSE tx

Rename(fs, a, b) == Put(Del(fs, a), b, fs[a])

SwapOutcomes == {"ok", "OSError"}

\* the swap of the files after a success: the original is renamed to the backup
\* or trashed, the temp file takes the standard name; an OSError ends it
SwapFiles(fs, o, swap) ==
    IF o.dry_run \/ Orig \notin DOMAIN fs \/ swap = "OSError"
    THEN fs
    ELSE Rename(IF o.keep_backup THEN Rename(fs, Orig, OrigBackup) ELSE Del(fs, Orig),
                TempPath, StandardName)

\* a failure branch that leaves the temp file and the anomaly alone
FinishMovedNoCleanup(f, o, success, io, swap) ==
    IF success /\ ~o.sample
    THEN [f EXCEPT !.fs = SwapFiles(f.fs, o, swap),
                   !.vid.basename1 =
                       IF SwapFiles(f.fs, o, swap) # f.fs THEN StandardName ELSE @]
    ELSE IF success
    THEN [f EXCEPT !.vid.basename1 = TempPath]
    ELSE f

\* lines 449-512 of finish_transcode_job: the auto mode vitals, then the swap
\* of the files after a success, or the removal of the temp file and the
\* encode-failure anomaly otherwise
FinishMoved(f, o, success, io, swap) ==
    LET auto1 == IF ~f.auto.enabled THEN f.auto
                 ELSE IF success /\ ~o.sample
                 THEN [f.auto EXCEPT !.ok_count = @ + 1,
                                     !.consecutive_failures = 0]
                 ELSE IF ~success
                 THEN [f.auto EXCEPT !.error_count = @ + 1,
                                     !.consecutive_failures = @ + 1]
                 ELSE f.auto
    IN  IF success /\ ~o.sample
        THEN [f EXCEPT !.auto = auto1,
                       !.fs = SwapFiles(f.fs, o, swap),
                       !.vid.basename1 =
                           IF SwapFiles(f.fs, o, swap) # f.fs THEN StandardName ELSE @]
        ELSE IF success
        THEN [f EXCEPT !.auto = auto1, !.vid.basename1 = TempPath]
        ELSE [f EXCEPT !.auto = auto1,
                       !.fs = Del(f.fs, TempPath),
                       !.c = SetAnomaly(f.c, Del(f.fs, TempPath), Orig, Err, io).c]

\* lines 429-447: the verdict on the probe of the temp file
FinishJudged(f, o, success, rc, probe, net, io, swap) ==
    LET reject == success /\ IsAllowedCodec(o.allowed_codecs, probe)
                          /\ net > 0 - o.min_shrink_pct
    IN  FinishMoved(
            [f EXCEPT
               !.c = IF reject THEN SetAnomaly(f.c, f.fs, Orig, OPT, io).c ELSE @,
               !.texts = IF success /\ probe = NoMeta /\ ~o.dry_run
                         THEN ElaborateErr(@, rc) ELSE @,
               !.vid = IF success
                       THEN [@ EXCEPT !.net = net,
                                      !.doit = IF probe # NoMeta THEN @
                                               ELSE IF o.dry_run THEN "ok" ELSE "ERR"]
                       ELSE @,
               !.ret = Returned(probe)],
            o, success /\ (probe = NoMeta => o.dry_run) /\ ~reject, io, swap)

\* after line 428, g what probe_cache.get gave
FinishProbed(f, o, success, rc, g, io, swap) ==
    IF g.ret.kind = "raise"
    THEN [f EXCEPT !.c = g.c, !.ret = g.ret]
    ELSE IF success /\ g.ret.meta # NoMeta /\ f.vid.gb = 0
    THEN [f EXCEPT !.c = g.c, !.ret = Raised("ZeroDivisionError")]
    ELSE FinishJudged([f EXCEPT !.c = g.c], o, success, rc, g.ret.meta,
                      IF g.ret.meta = NoMeta THEN (IF o.dry_run THEN 0 - 20 ELSE 0)
                      ELSE Net(f.vid.gb, g.ret.meta.gb),
                      io, swap)

\* finish_transcode_job from f = [c, fs, vid, texts, auto]; ret is the value
\* returned or the exception raised.  vid.ops and the timestamps are not
\* modelled.
FinishTranscodeJob(f, o, success, rc, outcome, io, swap) ==
    FinishProbed(f, o, success, rc,
                 IF success /\ ~o.dry_run THEN Get(f.c, f.fs, TempPath, outcome)
                 ELSE [c |-> f.c, ret |-> Returned(NoMeta), probed |-> FALSE],
                 io, swap)

NoFinish == [op |-> "init"]
NoAuto == [enabled |-> FALSE, ok_count |-> 0, error_count |-> 0,
           consecutive_failures |-> 0]
DefaultOpts == [dry_run |-> FALSE, sample |-> FALSE, keep_backup |-> FALSE,
                allowed_codecs |-> "x265", min_shrink_pct |-> 10]
NoJobs == [done |-> 0, active |-> FALSE]

FinishIdle ==
    /\ vid = [gb |-> 0, net |-> NoneVal, doit |-> "", basename1 |-> NoneVal]
    /\ opts = DefaultOpts
    /\ auto = NoAuto
    /\ jobs = NoJobs
    /\ fin = NoFinish

----------------------------------------------------------------------------
(* ProbeCache.batch_get_or_probe                                           *)

BatchPaths == {"/v/a.mkv", "/v/b.mkv"}
DirtyFlushAt == 100

NoFuture == [state |-> "unsubmitted", meta |-> NoMeta, local |-> 0]
\* valid is history: the paths that had a valid entry when the call began
NoBatch == [pc |-> "idle", i |-> 0, needed |-> <<>>, results |-> EmptyMap,
            exit_please |-> FALSE, keys |-> {}, after |-> "", status |-> NoCode,
            valid |-> {}]

BatchIdle ==
    /\ batch = NoBatch
    /\ futs = [p \in BatchPaths |-> NoFuture]
    /\ lock = "free"
    /\ unlocked = {}
    /\ okseen = {}

\* a first pass that has every path probed
RECURSIVE FirstPassProbeAll(_, _, _)
FirstPassProbeAll(c, fs, paths) ==
    IF paths = <<>>
    THEN [c |-> c, results |-> EmptyMap, needed |-> <<>>]
    ELSE LET v == GetValidEntry(c, fs, Head(paths))
             rest == FirstPassProbeAll(v.c, fs, Tail(paths))
         IN  [rest EXCEPT !.needed = <<Head(paths)>> \o @]

\* the first pass: the valid entries are the hits, the other paths need a probe
RECURSIVE FirstPass(_, _, _)
FirstPass(c, fs, paths) ==
    IF paths = <<>>
    THEN [c |-> c, results |-> EmptyMap, needed |-> <<>>]
    ELSE LET v == GetValidEntry(c, fs, Head(paths))
             rest == FirstPass(v.c, fs, Tail(paths))
         IN  IF v.meta # NoMeta
             THEN [rest EXCEPT !.results = Put(@, Head(paths), v.meta)]
             ELSE [rest EXCEPT !.needed = <<Head(paths)>> \o @]

\* the merge loop goes on to the next future, or to the finally block
MainNext(b) ==
    IF b.i < Len(b.needed) THEN [b EXCEPT !.i = @ + 1, !.pc = "await"]
    ELSE [b EXCEPT !.pc = "finally"]

\* future.cancel() on every future that is not running or done
CancelPending(f) ==
    [p \in DOMAIN f |-> IF f[p].state = "pending"
                        THEN [f[p] EXCEPT !.state = "cancelled"] ELSE f[p]]

\* after the final store: sys.exit(1) after an interrupt
AfterFinalStore(b) ==
    IF b.exit_please THEN [b EXCEPT !.pc = "exited", !.status = Code(1)]
    ELSE [b EXCEPT !.pc = "post"]

----------------------------------------------------------------------------
(* Converter.do_window_mode: handle_keyboard and advance_jobs               *)

MaxVids == 2          \* videos on the screen
Vids == 1..MaxVids

NoJob == [none |-> TRUE]           \* self.job = None
JobOf(v) == [vid |-> v]

\* search is the set of videos whose line the accepted search pattern does not
\* match, visible the videos of visible_vids
NoConverter ==
    [state |-> "probe", not_help_state |-> "probe", help_mode |-> FALSE,
     auto_mode_enabled |-> FALSE, job |-> NoJob, vids |-> {}, present |-> {},
     doit |-> <<>>, doit_auto |-> <<>>, alive |-> {}, pc |-> "idle",
     search |-> {}, visible |-> {}, help_from |-> "probe"]

WindowIdle == converter = NoConverter

Keys == {"none", "help_mode", "reset_all", "init_all", "toggle", "go", "quit",
         "search"}

\* the search patterns typed: one that matches every line, one that matches
\* every line but that of video 1
SearchHides == {{}, {1}}

\* make_lines: the videos whose lines are shown; render_screen leaves
\* visible_vids alone on the help screen
Render(o) ==
    IF o.state = "help" THEN o
    ELSE [o EXCEPT !.visible =
             {v \in o.vids : /\ ~(o.state = "convert" /\ o.doit[v] = "[ ]")
                             /\ v \notin o.search}]

Max(S) == CHOOSE x \in S : \A y \in S : y <= x

\* the text of an anomaly as vid.doit shows it
ErTexts == <<"Er1", "Er2", "Er3", "Er4", "Er5", "Er6", "Er7", "Er8", "Er9">>
PTexts == <<"?P1", "?P2", "?P3", "?P4", "?P5", "?P6", "?P7", "?P8", "?P9">>
MarkText(a) ==
    IF a = OPT THEN "OPT"
    ELSE IF a = SKP THEN "---"
    ELSE IF a = DUN THEN "DUN"
    ELSE IF a[1] = "?" THEN PTexts[DigitOf(a[3])]
    ELSE ErTexts[DigitOf(a[3])]

\* vid.doit.startswith('?')
ProbeFailureMarks == {PTexts[n] : n \in 1..Len(PTexts)}

\* append_vid that leaves the checkbox to every Er anomaly
AppendVidAnyEr(anomaly, selectable) ==
    IF anomaly # NoneVal /\ anomaly[1] # "E"
    THEN MarkText(anomaly)
    ELSE IF selectable THEN "[X]" ELSE "[ ]"

\* append_vid: the first value of vid.doit, kept in vid.doit_auto; selectable
\* is 'not (vid.all_ok or self.dont_doit(vid))'
AppendVid(anomaly, selectable) ==
    IF anomaly # NoneVal /\ anomaly # ErN(1)
    THEN MarkText(anomaly)
    ELSE IF selectable THEN "[X]" ELSE "[ ]"

\* toggle_doit without the test of the leading '?'
ToggleDoitAnyMark(o, v, dont) ==
    IF o.doit[v] = "[X]"
    THEN [o EXCEPT !.doit[v] = IF o.doit_auto[v] # "[X]" THEN o.doit_auto[v]
                                ELSE "[ ]"]
    ELSE IF ~dont
    THEN [o EXCEPT !.doit[v] = "[X]"]
    ELSE o

\* toggle_doit(vid); dont is what dont_doit(vid) says
ToggleDoit(o, v, dont) ==
    IF o.doit[v] = "[X]"
    THEN [o EXCEPT !.doit[v] = IF o.doit_auto[v] # "[X]" THEN o.doit_auto[v]
                                ELSE "[ ]"]
    ELSE IF o.doit[v] \notin ProbeFailureMarks /\ ~dont
    THEN [o EXCEPT !.doit[v] = "[X]"]
    ELSE o

\* the help screen is entered and left with spins.help_mode
HelpSync(o) ==
    IF o.help_mode
    THEN IF o.state # "help"
         THEN [o EXCEPT !.not_help_state = o.state, !.state = "help"]
         ELSE o
    ELSE IF o.state = "help"
    THEN [o EXCEPT !.state = o.not_help_state]
    ELSE o

\* a quit key that leaves the convert screen and keeps the job
QuitKeepsJob(o) ==
    IF o.state = "select" THEN [o EXCEPT !.state = "exit"]
    ELSE IF o.state = "convert"
    THEN [o EXCEPT !.auto_mode_enabled = FALSE, !.state = "select"]
    ELSE o

\* the quit key calls self.job.ffsubproc.stop()
QuitStops(o, key) == key = "quit" /\ o.state = "convert" /\ o.job # NoJob

\* the quit key: leaves the program from the select screen, and stops the
\* job and returns to the select screen from the convert screen
Quit(o) ==
    IF o.state = "select" THEN [o EXCEPT !.state = "exit"]
    ELSE IF o.state = "convert"
    THEN [o EXCEPT !.doit = IF o.job # NoJob
                            THEN [@ EXCEPT ![o.job.vid] = "[X]"] ELSE @,
                   !.alive = IF o.job # NoJob THEN @ \ {o.job.vid} ELSE @,
                   !.job = NoJob,
                   !.auto_mode_enabled = FALSE,
                   !.state = "select"]
    ELSE o

\* spin.do_key, handle_keyboard and the switch to the convert screen of the
\* auto mode, for one key (v is the video at the pick position, pat the
\* search pattern typed)
HandleKeyboard(o, key, v, dont, pat) ==
    LET o1 == HelpSync([o EXCEPT !.help_mode = IF key = "help_mode" THEN ~@ ELSE @])
        o2 == IF key = "search" /\ o1.state = "select"
              THEN [o1 EXCEPT !.search = pat]
              ELSE IF key = "reset_all" /\ o1.state = "select"
              THEN [o1 EXCEPT !.doit = [w \in Vids |->
                        IF w \in o1.visible /\ o1.doit_auto[w] \in {"[X]", "[ ]"}
                        THEN "[ ]" ELSE @[w]]]
              ELSE IF key = "init_all" /\ o1.state = "select"
              THEN [o1 EXCEPT !.doit = [w \in Vids |->
                        IF w \in o1.visible THEN o1.doit_auto[w] ELSE @[w]]]
              ELSE IF key = "toggle" /\ o1.state = "select" /\ v \in o1.visible
              THEN ToggleDoit(o1, v, dont)
              ELSE IF key = "go" /\ o1.state = "select"
              THEN [o1 EXCEPT !.state = "convert"]
              ELSE IF key = "quit"
              THEN Quit(o1)
              ELSE o1
    IN  IF o2.auto_mode_enabled /\ o2.state = "select"
        THEN [o2 EXCEPT !.state = "convert"]
        ELSE o2

\* advance_jobs with the guard 'start only one job' left out
StartedVidsEvery(o) ==
    {v \in o.visible : o.doit[v] = "[X]" /\ v \in o.present}

\* advance_jobs that walks self.vids instead of visible_vids
StartedVidsHidden(o) ==
    LET ready == {v \in o.vids : o.doit[v] = "[X]" /\ v \in o.present}
    IN  IF ready = {} THEN {} ELSE {CHOOSE v \in ready : \A w \in ready : v <= w}

\* the videos the loop over visible_vids starts a job for: the first one
\* marked '[X]' whose file is there
StartedVids(o) ==
    LET ready == {v \in o.visible : o.doit[v] = "[X]" /\ v \in o.present}
    IN  IF ready = {} THEN {} ELSE {CHOOSE v \in ready : \A w \in ready : v <= w}

\* lines 1700-1730: the final code of the job arrived
JobFinalized(o, dry_run, got, ended) ==
    LET v == o.job.vid
        marked == [o EXCEPT !.doit[v] = IF got = Code(0) THEN " OK" ELSE "ERR",
                            !.doit_auto[v] = IF got = Code(0) THEN " OK" ELSE "ERR"]
    IN  IF ended = "raises"
        THEN [marked EXCEPT !.state = "exit"]
        ELSE [marked EXCEPT !.doit[v] = IF got = Code(0) /\ dry_run THEN "ok" ELSE @,
                            !.alive = @ \ {v},
                            !.job = NoJob]

\* lines 1732-1770: the next job is started, or the convert screen is left
NextJobStarted(o, start, auto_exit) ==
    LET gonners == {v \in o.visible : o.doit[v] = "[X]" /\ v \notin o.present}
        started == StartedVids(o)
    IN  IF started # {} /\ start = "raises"
        THEN [o EXCEPT !.state = "exit"]
        ELSE IF started # {}
        THEN [o EXCEPT !.vids = @ \ gonners,
                       !.job = JobOf(Max(started)),
                       !.alive = @ \cup started,
                       !.doit = [w \in Vids |-> IF w \in started THEN "IP " ELSE @[w]]]
        ELSE [o EXCEPT !.vids = @ \ gonners,
                       !.state = IF o.auto_mode_enabled /\ auto_exit
                                 THEN "exit" ELSE "select"]

\* advance_jobs that looks at the job on the convert screen only
AdvanceJobsConvertOnly(o, dry_run, got, ended, start, auto_exit) ==
    LET o1 == IF o.job # NoJob /\ o.state = "convert" /\ got # NoCode
              THEN JobFinalized(o, dry_run, got, ended)
              ELSE o
    IN  IF o1.state = "convert" /\ o1.job = NoJob
        THEN NextJobStarted(o1, start, auto_exit)
        ELSE o1

\* advance_jobs: got is what get_job_progress gave (no code: a progress line
\* or nothing), ended how finish_transcode_job ended, start how
\* start_transcode_job ended
AdvanceJobs(o, dry_run, got, ended, start, auto_exit) ==
    LET o1 == IF o.job # NoJob /\ o.state \in {"convert", "help"} /\ got # NoCode
              THEN JobFinalized(o, dry_run, got, ended)
              ELSE o
    IN  IF o1.state = "convert" /\ o1.job = NoJob
        THEN NextJobStarted(o1, start, auto_exit)
        ELSE o1

----------------------------------------------------------------------------
(* The cache used from one thread: SpecCache                               *)

CNow == CState(cache_data, dirty_count, cache_file, tmp_file)

NoCall == [op |-> "init", path |-> "", ret |-> Returned(NoMeta), probed |-> FALSE,
           outcome |-> "", reload |-> FALSE]

\* the cache files a run can find at start-up
GoodEntry(size) == ProbeFields(size)
OldSchemaEntry(size) == [f \in disk_fields \ {"color_spt"} |-> ProbeFields(size)[f]]
InitialCacheFiles ==
    {NoFile}
    \cup {FullFile([p \in {"/v/a.mkv"} |-> e]) :
            e \in {GoodEntry(1), OldSchemaEntry(1), Placeholder(PFail(8)),
                   [GoodEntry(1) EXCEPT !.anomaly = ErN(8)]}}

InstallC(c) ==
    /\ cache_data' = c.cache_data
    /\ dirty_count' = c.dirty_count
    /\ cache_file' = c.cache_file
    /\ tmp_file' = c.tmp_file

Record(op, p, ret, probed, outcome) ==
    last' = [op |-> op, path |-> p, ret |-> ret, probed |-> probed,
                outcome |-> outcome,
                reload |-> (op = "load" /\ last.op = "store" /\ dirty_count = 0)]

InitCache ==
    /\ files \in UNION {[D -> FileSizes] : D \in SUBSET Paths}
    /\ \E cf \in InitialCacheFiles :
         LET c == Construct(cf, NoFile, files)
         IN  /\ cache_data = c.cache_data
             /\ dirty_count = c.dirty_count
             /\ cache_file = c.cache_file
             /\ tmp_file = c.tmp_file
    /\ store_pc = "idle"
    /\ committed = cache_file
    /\ pending = EmptyMap
    /\ last = NoCall
    /\ streak = [p \in Paths |->
                    IF p \in DOMAIN cache_data /\ "anomaly" \in DOMAIN cache_data[p]
                       /\ StartsWith(cache_data[p].anomaly, <<"?", "P">>)
                    THEN MaxStreak + 1 ELSE 0]
    /\ MonitorIdle
    /\ JobIdle
    /\ FinishIdle
    /\ BatchIdle
    /\ WindowIdle

DoGet(p, outcome) ==
    /\ store_pc = "idle"
    /\ dirty_count < MaxDirty
    /\ LET g == Get(CNow, files, p, outcome)
       IN  /\ InstallC(g.c)
           /\ Record("get", p, g.ret, g.probed, IF g.probed THEN outcome ELSE "")
           /\ streak' = [streak EXCEPT ![p] =
                            IF ~g.probed THEN @
                            ELSE IF outcome = "ok" THEN 0
                            ELSE IF outcome \in CountedFailures
                            THEN Min(@ + 1, MaxStreak + 1)
                            ELSE MaxStreak + 1]
    /\ UNCHANGED <<files, store_pc, committed, pending>>
    /\ UNCHANGED notCacheVars

SetAnomalyValues == {OPT, Err, SKP}

DoSetAnomaly(p, a, io) ==
    /\ store_pc = "idle"
    /\ dirty_count < MaxDirty
    /\ LET s == SetAnomaly(CNow, files, p, a, io)
       IN  /\ InstallC(s.c)
           /\ Record("set_anomaly", p, s.ret, FALSE, "")
    /\ UNCHANGED <<files, store_pc, committed, pending, streak>>
    /\ UNCHANGED notCacheVars

DoStore(io) ==
    /\ store_pc = "idle"
    /\ InstallC(Store(CNow, io))
    /\ Record("store", "", Returned(NoMeta), FALSE, "")
    /\ UNCHANGED <<files, store_pc, committed, pending, streak>>
    /\ UNCHANGED notCacheVars

DoLoad ==
    /\ store_pc = "idle"
    /\ dirty_count < MaxDirty
    /\ InstallC(Load(CNow, files))
    /\ Record("load", "", Returned(NoMeta), FALSE, "")
    /\ UNCHANGED <<files, store_pc, committed, pending, streak>>
    /\ UNCHANGED notCacheVars

\* the media library changes under the cache
FsWrite(p, size) ==
    /\ store_pc = "idle"
    /\ IF p \in DOMAIN files THEN files[p] # size ELSE TRUE
    /\ files' = Put(files, p, size)
    /\ streak' = [streak EXCEPT ![p] = 0]
    /\ Record("fs", p, Returned(NoMeta), FALSE, "")
    /\ UNCHANGED <<cache_data, dirty_count, cache_file, tmp_file, store_pc,
                   committed, pending>>
    /\ UNCHANGED notCacheVars

FsDelete(p) ==
    /\ store_pc = "idle"
    /\ p \in DOMAIN files
    /\ files' = Del(files, p)
    /\ streak' = [streak EXCEPT ![p] = 0]
    /\ Record("fs", p, Returned(NoMeta), FALSE, "")
    /\ UNCHANGED <<cache_data, dirty_count, cache_file, tmp_file, store_pc,
                   committed, pending>>
    /\ UNCHANGED notCacheVars

NextCache ==
    \/ \E p \in Paths, o \in ProbeOutcomes : DoGet(p, o)
    \/ \E p \in Paths, a \in SetAnomalyValues, io \in StoreOutcomes :
          DoSetAnomaly(p, a, io)
    \/ \E io \in StoreOutcomes : DoStore(io)
    \/ DoLoad
    \/ \E p \in Paths, s \in FileSizes : FsWrite(p, s)
    \/ \E p \in Paths : FsDelete(p)

SpecCache == InitCache /\ [][NextCache]_vars

----------------------------------------------------------------------------
(* Claims on the cache used from one thread                                *)

LastGetProbed(p) == last.op = "get" /\ last.path = p /\ last.probed

Cached(p) == p \in DOMAIN cache_data
CachedAnomaly(p) == cache_data[p].anomaly

\* C1: get(path) on an existing file without valid entry whose probe fails returns
\* a placeholder record carrying the ?Pn marker; it neither raises nor returns
\* an empty result.
C1_FailedProbeReturnsPlaceholder ==
    \A p \in Paths :
        (LastGetProbed(p) /\ last.outcome # "ok")
            => /\ last.ret.kind = "meta"
               /\ last.ret.meta # NoMeta
               /\ StartsWith(last.ret.meta.anomaly, <<"?", "P">>)

\* C2: on an unchanged existing file of any size, the n-th failing probe in a row
\* (n = 1, 2, 3) leaves the cached anomaly at ?Pn, and a following successful
\* probe leaves it absent.
C2_EscalationSequence ==
    \A p \in Paths :
        LastGetProbed(p) =>
            /\ last.outcome = "ok" => Cached(p) /\ CachedAnomaly(p) = NoneVal
            /\ (last.outcome \in CountedFailures /\ streak[p] \in 1..3)
                   => Cached(p) /\ CachedAnomaly(p) = PFail(streak[p])

\* the second of two get(path) calls with nothing in between, for each way
\* the probe (if it is run) can end
SecondGet(o) == Get(CNow, files, last.path, o)

\* C10 as claimed: two get(path) calls without file-system change in between
\* return equal results and run the external probe at most once in total.
C10_GetTwiceOneProbe ==
    last.op = "get" =>
        \A o \in ProbeOutcomes :
            /\ SecondGet(o).ret = last.ret
            /\ ~(last.probed /\ SecondGet(o).probed)

\* C10 as amended: when the first get(path) returns a record (a cache hit or a
\* successful probe), the second returns an equal record and the external probe
\* ran at most once in total.
C10_GetTwiceAfterRecord ==
    (last.op = "get" /\ last.ret.kind = "meta") =>
        \A o \in ProbeOutcomes :
            /\ SecondGet(o).ret = last.ret
            /\ ~(last.probed /\ SecondGet(o).probed)

C10_Witness ==
    /\ last.op = "get"
    /\ last.probed
    /\ last.ret.kind = "meta"
    /\ last.path \in DOMAIN files
    /\ files[last.path] > 0

\* an entry that _get_valid_entry removes for the state of the file: the file
\* is gone or its size differs from the stored size_bytes
StaleEntry(cd, fs, p) ==
    /\ p \in DOMAIN cd
    /\ IF p \in DOMAIN fs THEN cd[p].size_bytes # fs[p] ELSE TRUE

AccessedPaths(l) ==
    IF l.op \in {"get", "set_anomaly"} THEN {l.path}
    ELSE IF l.op = "load" THEN Paths
    ELSE {}

\* C11: when a cached entry is stale (its file is gone or the on-disk size
\* differs from its stored size_bytes), then after the next access to that
\* path (load, get or set_anomaly) the cache map holds no stale entry for it.
C11_StaleEntryGone ==
    [][\A p \in AccessedPaths(last') :
          StaleEntry(cache_data, files, p) => ~StaleEntry(cache_data', files', p)]_vars

\* C12: store() that wrote the file, then load() with the files unchanged,
\* leaves every valid entry in the map equal to the original; a load() drops
\* every entry of the cache file whose field set is not the nine-field schema.
C12_StoreLoadRoundTrip ==
    [][last'.op = "load" =>
          /\ (last.op = "store" /\ dirty_count = 0) =>
                 \A p \in DOMAIN cache_data :
                     ~StaleEntry(cache_data, files, p)
                         => /\ p \in DOMAIN cache_data'
                            /\ cache_data'[p] = cache_data[p]
          /\ \A p \in DOMAIN cache_file.data :
                 DOMAIN cache_file.data[p] # disk_fields
                     => p \notin DOMAIN cache_data']_vars

C12_Witness ==
    /\ last.op = "load"
    /\ last.reload
    /\ dirty_count = 0
    /\ cache_data # EmptyMap
    /\ cache_file.data = cache_data

\* C13: set_anomaly(path, v) on a valid entry: for an encode-failure value v
\* the stored anomaly becomes Er1 when none was present and Er(min(n+1, 9))
\* when it was Ern; for any other v the stored anomaly becomes v.
C13_SetAnomalyStores ==
    [][\A p \in Paths, a \in SetAnomalyValues, io \in StoreOutcomes :
          (DoSetAnomaly(p, a, io) /\ last'.ret.meta # NoMeta) =>
              LET old == cache_data[p].anomaly
                  new == cache_data'[p].anomaly
              IN  IF StartsWith(a, <<"E", "r">>)
                  THEN /\ old = NoneVal => new = ErN(1)
                       /\ \A n \in 1..9 : old = ErN(n) => new = ErN(Min(n + 1, 9))
                  ELSE new = a]_vars

C13_Witness ==
    /\ last.op = "set_anomaly"
    /\ last.ret.meta # NoMeta
    /\ CachedAnomaly(last.path) = ErN(9)

\* the anomaly vocabulary: none, ?P1..?P9, Er1..Er9, OPT, ---, DUN
AnomalyVocabulary ==
    {NoneVal, OPT, SKP, DUN} \cup {PFail(n) : n \in 1..9} \cup {ErN(n) : n \in 1..9}

\* C14: after any sequence of get, set_anomaly and store the anomaly of every
\* cache entry, in memory and in the cache file, is in the anomaly vocabulary.
C14_AnomalyVocabulary ==
    /\ \A p \in DOMAIN cache_data : cache_data[p].anomaly \in AnomalyVocabulary
    /\ \A p \in DOMAIN cache_file.data :
           cache_file.data[p].anomaly \in AnomalyVocabulary

\* a set_anomaly step that changed the anomaly of a valid entry
AnomalyChanged(p) ==
    /\ last'.ret.meta # NoMeta
    /\ cache_data'[p].anomaly # cache_data[p].anomaly

Flushed(cf, cd, dc) == cf.exists /\ cf.complete /\ cf.data = cd /\ dc = 0

C21_ProbeRetriedBelowCap ==
    [][\A p \in Paths, n \in 1..9 :
          (/\ last'.op = "get" /\ last'.path = p
           /\ p \in DOMAIN files
           /\ p \in DOMAIN cache_data
           /\ DOMAIN cache_data[p] = disk_fields
           /\ cache_data[p].size_bytes = files[p]
           /\ cache_data[p].anomaly = PFail(n))
              => /\ last'.probed <=> n < 9
                 /\ n = 9 => /\ last'.ret = Returned(ComputeFields(cache_data[p]))
                             /\ cache_data' = cache_data]_vars

\* a ?P9 entry was returned as it is stored
C21_Witness ==
    /\ last.op = "get"
    /\ ~last.probed
    /\ last.ret.kind = "meta"
    /\ last.ret.meta # NoMeta
    /\ last.ret.meta.anomaly = PFail(9)
    /\ last.path \in DOMAIN files

\* C22: every kind of probe failure (the tool exits non-zero, its output is no
\* JSON, lacks a video stream or the format section, the probe times out)
\* leaves a ?Pn marker recorded for the path, and get() does not raise.
C22_EveryFailureCounted ==
    \A p \in Paths :
        (LastGetProbed(p) /\ last.outcome # "ok")
            => /\ last.ret.kind # "raise"
               /\ Cached(p)
               /\ StartsWith(CachedAnomaly(p), <<"?", "P">>)

\* C29: after load() and any sequence of get, set_anomaly and store every
\* entry of the in-memory map, and of a cache file that store() wrote, has
\* exactly the nine fields of the schema; bloat and gb are not stored.
C29_NineFieldSchema ==
    /\ \A p \in DOMAIN cache_data : DOMAIN cache_data[p] = disk_fields
    /\ cache_file # committed
           => \A p \in DOMAIN cache_file.data : DOMAIN cache_file.data[p] = disk_fields

\* set_anomaly returned a record with the derived fields and flushed the map
C29_Witness ==
    /\ last.op = "set_anomaly"
    /\ last.ret.meta # NoMeta
    /\ {"bloat", "gb"} \subseteq DOMAIN last.ret.meta
    /\ cache_file # committed
    /\ last.path \in DOMAIN cache_file.data
    /\ cache_file.data = cache_data

----------------------------------------------------------------------------
(* store() step by step, with the process dying at any point: SpecStore    *)

PartialFile(data) == [exists |-> TRUE, complete |-> FALSE, data |-> data]

\* store() writing straight into cache_path
OpenForWriteInPlace(c) == [c EXCEPT !.cache_file = PartialFile(EmptyMap)]

\* open(temp_path, 'w'): the file store() writes into, created or truncated
OpenForWrite(c) == [c EXCEPT !.tmp_file = PartialFile(EmptyMap)]

\* json.dump has written one more entry
DumpEntry(c, p) ==
    [c EXCEPT !.tmp_file = PartialFile(Put(c.tmp_file.data, p, c.cache_data[p]))]

\* json.dump has written the closing brace and the file is closed
DumpEnd(c) == [c EXCEPT !.tmp_file = FullFile(c.tmp_file.data)]

\* os.replace(temp_path, cache_path)
Replace(c) == [c EXCEPT !.cache_file = c.tmp_file, !.tmp_file = NoFile]

\* finally: os.unlink(temp_path) if it is still there
Cleanup(c) == [c EXCEPT !.tmp_file = NoFile]

StoreOpen ==
    /\ store_pc = "idle"
    /\ dirty_count > 0
    /\ InstallC(OpenForWrite(CNow))
    /\ committed' = cache_file
    /\ pending' = cache_data
    /\ store_pc' = "dump"
    /\ UNCHANGED <<files, last, streak>>
    /\ UNCHANGED notCacheVars

StoreDumpEntry(p) ==
    /\ store_pc = "dump"
    /\ p \in DOMAIN cache_data \ DOMAIN tmp_file.data
    /\ InstallC(DumpEntry(CNow, p))
    /\ UNCHANGED <<files, store_pc, committed, pending, last, streak>>
    /\ UNCHANGED notCacheVars

StoreDumpEnd ==
    /\ store_pc = "dump"
    /\ DOMAIN tmp_file.data = DOMAIN cache_data
    /\ InstallC(DumpEnd(CNow))
    /\ store_pc' = "replace"
    /\ UNCHANGED <<files, committed, pending, last, streak>>
    /\ UNCHANGED notCacheVars

StoreReplace ==
    /\ store_pc = "replace"
    /\ InstallC(Replace(CNow))
    /\ store_pc' = "reset"
    /\ UNCHANGED <<files, committed, pending, last, streak>>
    /\ UNCHANGED notCacheVars

StoreReset ==
    /\ store_pc = "reset"
    /\ dirty_count' = 0
    /\ store_pc' = "finally"
    /\ UNCHANGED <<files, cache_data, cache_file, tmp_file, committed, pending,
                   last, streak>>
    /\ UNCHANGED notCacheVars

\* the write or the rename fails: except IOError, then finally
StoreIOError ==
    /\ store_pc \in {"dump", "replace"}
    /\ store_pc' = "finally"
    /\ UNCHANGED <<files, cache_data, dirty_count, cache_file, tmp_file, committed,
                   pending, last, streak>>
    /\ UNCHANGED notCacheVars

StoreFinally ==
    /\ store_pc = "finally"
    /\ InstallC(Cleanup(CNow))
    /\ store_pc' = "idle"
    /\ last' = [NoCall EXCEPT !.op = "store"]
    /\ UNCHANGED <<files, committed, pending, streak>>
    /\ UNCHANGED notCacheVars

\* the process is killed: memory is lost, the files stay as they are
Crash ==
    /\ store_pc # "crashed"
    /\ store_pc' = "crashed"
    /\ cache_data' = EmptyMap
    /\ dirty_count' = 0
    /\ last' = NoCall
    /\ UNCHANGED <<files, cache_file, tmp_file, committed, pending, streak>>
    /\ UNCHANGED notCacheVars

\* the next run constructs its ProbeCache from what is on disk
Restart ==
    /\ store_pc = "crashed"
    /\ InstallC(Construct(cache_file, tmp_file, files))
    /\ store_pc' = "idle"
    /\ last' = [NoCall EXCEPT !.op = "load"]
    /\ streak' = [p \in Paths |-> MaxStreak + 1]
    /\ UNCHANGED <<files, committed, pending>>
    /\ UNCHANGED notCacheVars

NextStore ==
    \/ \E p \in Paths, o \in {"ok", "CalledProcessError"} : DoGet(p, o)
    \/ \E p \in Paths, s \in FileSizes : FsWrite(p, s)
    \/ \E p \in Paths : FsDelete(p)
    \/ StoreOpen
    \/ \E p \in Paths : StoreDumpEntry(p)
    \/ StoreDumpEnd
    \/ StoreReplace
    \/ StoreReset
    \/ StoreIOError
    \/ StoreFinally
    \/ Crash
    \/ Restart

SpecStore == InitCache /\ [][NextStore]_vars

\* C7: at every point during and after a store(), also when the process dies
\* between writing the temp file and the rename, the file at cache_path is a
\* complete cache: the one committed before, or the new one.
C7_AtomicPersistence ==
    /\ cache_file.complete
    /\ cache_file \in {committed, FullFile(pending)}
    /\ store_pc \in {"dump", "replace"} => cache_file = committed
    /\ store_pc = "reset" => cache_file = FullFile(pending)

\* the process died after the temp file was written and before the rename
C7_Witness ==
    /\ store_pc = "crashed"
    /\ tmp_file.exists
    /\ tmp_file.complete
    /\ tmp_file.data # EmptyMap
    /\ cache_file = committed
    /\ cache_file # tmp_file

----------------------------------------------------------------------------
(* One monitor supervising one encoder run, as a Job uses it: SpecMon      *)

CacheIdle ==
    /\ cache_data = EmptyMap
    /\ dirty_count = 0
    /\ cache_file = NoFile
    /\ tmp_file = NoFile
    /\ store_pc = "idle"
    /\ committed = NoFile
    /\ pending = EmptyMap
    /\ last = NoCall
    /\ streak = [p \in Paths |-> 0]

InitMon ==
    /\ files = EmptyMap
    /\ CacheIdle
    /\ MonitorIdle
    /\ JobIdle
    /\ FinishIdle
    /\ BatchIdle
    /\ WindowIdle

MonStart(temp_file, spawns) ==
    /\ ~run.started
    /\ LET s == Start(mon, proc, temp_file, spawns)
       IN  /\ mon' = s.mon
           /\ proc' = s.proc
           /\ mon_last' = [op |-> "start",
                           ret |-> IF s.exc = "" THEN RetNone ELSE RetRaise(s.exc)]
    /\ run' = [run EXCEPT !.started = TRUE]
    /\ UNCHANGED <<files, written, delivered>>
    /\ UNCHANGED notMonVars

\* the encoder writes one byte of diagnostics
ProcWrite(b) ==
    /\ proc.state = "running"
    /\ Len(written) < MaxStream
    /\ proc' = [proc EXCEPT !.pipe = Append(@, b)]
    /\ written' = Append(written, b)
    /\ UNCHANGED <<files, mon, delivered, mon_last, run>>
    /\ UNCHANGED notMonVars

\* the encoder creates its output file
ProcOutput ==
    /\ proc.state = "running"
    /\ TempPath \notin DOMAIN files
    /\ files' = Put(files, TempPath, 1)
    /\ UNCHANGED monVars
    /\ UNCHANGED notMonVars

ProcExit(code) ==
    /\ proc.state = "running"
    /\ proc' = [proc EXCEPT !.state = "exited", !.code = Code(code)]
    /\ UNCHANGED <<files, mon, written, delivered, mon_last, run>>
    /\ UNCHANGED notMonVars

MonPoll ==
    /\ LET r == Poll(mon, proc)
       IN  /\ mon' = r.mon
           /\ proc' = r.proc
           /\ mon_last' = [op |-> "poll", ret |-> r.ret]
           /\ delivered' = IF r.ret.kind = "line"
                           THEN Append(delivered, r.ret.line)
                           ELSE delivered
    /\ UNCHANGED <<files, written, run>>
    /\ UNCHANGED notMonVars

StopCodes == {254, 255}

MonStop(code) ==
    /\ LET r == Stop(mon, proc, files, code)
       IN  /\ mon' = r.mon
           /\ proc' = r.proc
           /\ files' = r.fs
    /\ mon_last' = [op |-> "stop", ret |-> RetCode(code),
                    again |-> mon_last.op = "stop" /\ mon_last.ret = RetCode(code)]
    /\ run' = [run EXCEPT !.stopped = TRUE]
    /\ UNCHANGED <<written, delivered>>
    /\ UNCHANGED notMonVars

NextMon ==
    \/ \E t \in {NoneVal, <<TempPath>>}, ok \in BOOLEAN : MonStart(t, ok)
    \/ \E b \in Bytes : ProcWrite(b)
    \/ ProcOutput
    \/ \E c \in ExitCodes : ProcExit(c)
    \/ MonPoll
    \/ \E c \in StopCodes : MonStop(c)

SpecMon == InitMon /\ [][NextMon]_vars

\* the lines of a whole stderr stream: its non-empty fragments, decoded
Lines(stream) == QueuedLines(Split(stream))

\* C5: poll() returns the exit code of a process that ended by itself only
\* when no line is queued and no partial line is buffered, after it has
\* returned every line the process wrote (a final unterminated one included),
\* in order.
C5_LinesBeforeExitCode ==
    (mon_last.op = "poll" /\ mon_last.ret.kind = "code" /\ ~run.stopped)
        => /\ mon.output_queue = <<>>
           /\ mon.partial_line.data = <<>>
           /\ delivered = Lines(written)

\* the exit code arrives after two lines, the second one unterminated
C5_Witness ==
    /\ mon_last.op = "poll"
    /\ mon_last.ret.kind = "code"
    /\ ~run.stopped
    /\ proc.state = "exited"
    /\ Len(delivered) = 2
    /\ Last(written) \notin {"CR", "LF"}

\* C6: after stop(code) the monitor is as freshly constructed, except for
\* return_code = code.
C6_StopResets ==
    mon_last.op = "stop"
        => mon = [FreshMon EXCEPT !.return_code = Code(mon_last.ret.code)]

\* start() was called and no process came to be
SpawnFailure == run.started /\ proc = NoProc

\* C19: after a failed spawn in start() the monitor holds no process handle at
\* any later time and, until stop() is called, the stored code is 127 and
\* poll() returns 127.
C19_SpawnFailureGives127 ==
    SpawnFailure =>
        /\ mon.process = "None"
        /\ ~run.stopped =>
               /\ mon.return_code = Code(SpawnFailed)
               /\ Poll(mon, proc).ret = RetCode(SpawnFailed)
               /\ mon_last.op = "poll" => mon_last.ret = RetCode(SpawnFailed)

C19_Witness ==
    /\ SpawnFailure
    /\ ~run.stopped
    /\ mon_last.op = "poll"
    /\ mon_last.ret = RetCode(SpawnFailed)

\* the fragments of a whole stderr stream between the terminators, as text
DecodedFragments(stream) ==
    [i \in 1..Len(Split(stream)) |-> Decode(Split(stream)[i])]

\* C20: however the stream is cut into read chunks, no empty line is queued,
\* and when poll() has returned the exit code of a process that ended by
\* itself, the lines it returned are the non-empty fragments of the whole
\* stream split on carriage return or line feed, in order.
C20_LinesAreNonEmptyFragments ==
    /\ \A i \in 1..Len(mon.output_queue) : mon.output_queue[i] # <<>>
    /\ (mon_last.op = "poll" /\ mon_last.ret.kind = "code" /\ ~run.stopped)
           => delivered = SelectSeq(DecodedFragments(written), NonEmpty)

\* C23: poll() never blocks: from every state of the monitor and the process
\* (alive, exited, silent) a call makes at most one exit-status check and at
\* most one read of the pipe, and the read does not wait; a read that finds
\* nothing leaves the buffers as they are.
C23_PollNeverBlocks ==
    /\ PollCalls(mon, proc).checks <= 1
    /\ PollCalls(mon, proc).reads <= 1
    /\ ~PollCalls(mon, proc).waits
    /\ (mon.process # "None" /\ mon.output_queue = <<>>
            /\ proc.state = "running" /\ proc.pipe = <<>>)
           => Poll(mon, proc) = [mon |-> mon, proc |-> proc, ret |-> RetNone]

\* poll() returned None on a live process that had written nothing new
C23_Witness ==
    /\ mon_last.op = "poll"
    /\ mon_last.ret = RetNone
    /\ proc.state = "running"
    /\ proc.pipe = <<>>
    /\ PollCalls(mon, proc).reads = 1

\* C24: for every state of the monitor and every code c, stop(c) after stop(c)
\* changes nothing: the monitor, the process and the files are as the first
\* call left them.
C24_StopIdempotent ==
    \A c \in StopCodes :
        LET once == Stop(mon, proc, files, c)
            twice == Stop(once.mon, once.proc, once.fs, c)
        IN  /\ twice = once
            /\ (mon_last.op = "stop" /\ mon_last.again /\ mon_last.ret = RetCode(c))
                   => once = [mon |-> mon, proc |-> proc, fs |-> files]

\* stop() was called twice on a job whose encoder ran and had left output
C24_Witness ==
    /\ mon_last.op = "stop"
    /\ mon_last.again
    /\ proc.code = Code(0 - SigTerm)
    /\ written # <<>>

\* the bytes of the runs that are followed to their end: text and a terminator
PolledBytes == {"a", "LF"}

NextMonPolled ==
    \/ \E t \in {NoneVal, <<TempPath>>}, ok \in BOOLEAN : MonStart(t, ok)
    \/ \E b \in PolledBytes : ProcWrite(b)
    \/ ProcOutput
    \/ \E c \in ExitCodes : ProcExit(c)
    \/ MonPoll
    \/ \E c \in StopCodes : MonStop(c)

\* the caller keeps calling poll()
SpecMonPolled == InitMon /\ [][NextMonPolled]_vars /\ WF_vars(MonPoll)

\* C36: when the process has ended while the monitor holds it and the caller
\* keeps calling poll(), a poll() returns the exit code of the process, unless
\* stop() is called before; and once a poll() has returned a code, the next
\* poll() returns the same code and changes nothing, as long as neither
\* start() nor stop() is called.
C36_ExitCodeReachedAndKept ==
    /\ (proc.state = "exited" /\ mon.process # "None")
           ~> \/ mon_last.op = "poll" /\ mon_last.ret = RetStored(proc.code)
              \/ mon_last.op = "stop"
    /\ []((mon_last.op = "poll" /\ mon_last.ret.kind = "code")
            => Poll(mon, proc) = [mon |-> mon, proc |-> proc, ret |-> mon_last.ret])

\* the exit code 1 was returned after a line of the process
C36_Witness ==
    /\ mon_last.op = "poll"
    /\ mon_last.ret = RetCode(1)
    /\ proc.state = "exited"
    /\ proc.code = Code(1)
    /\ ~run.stopped
    /\ delivered # <<>>

\* the process ended by itself and poll() has handed back its exit code
ExitDelivered ==
    /\ ~run.stopped
    /\ proc.state = "exited"
    /\ mon.process = "None"
    /\ mon.return_code = proc.code

\* C33: once the process has ended by itself and poll() has handed back its
\* exit code, stop() with any code, and so the destructor, which calls stop(),
\* deletes no file: the output at the registered temp path stays.
C33_NoDeleteAfterOwnExit ==
    ExitDelivered =>
        \A c \in StopCodes : Stop(mon, proc, files, c).fs = files

\* C38: start() on a monitor that holds a process raises RuntimeError and
\* leaves the monitor (process, temp_file, partial_line, output_queue,
\* return_code) and the process as they were, whatever temp file it is given.
C38_SecondStartChangesNothing ==
    mon.process # "None" =>
        \A t \in {NoneVal, <<TempPath>>}, spawns \in BOOLEAN :
            LET s == Start(mon, proc, t, spawns)
            IN  /\ s.exc = "RuntimeError"
                /\ s.mon = mon
                /\ s.proc = proc

----------------------------------------------------------------------------
(* One job under the supervising loop: SpecJob                             *)

MaxClock == 35        \* seconds a job is followed
MaxJobWrites == 2     \* writes of the encoder to stderr while it is followed

\* what the encoder writes at a time: a progress line, a diagnostic line, a
\* fragment without terminator
JobChunks == {<<"F", "LF">>, <<"a", "LF">>, <<"a">>}

\* the time on the monotonic clock at which the job is started
StartTimes == {0, 2}

InitJob ==
    /\ files \in {EmptyMap, [p \in {TempPath} |-> 1]}
    /\ CacheIdle
    /\ MonitorIdle
    /\ now \in StartTimes
    /\ progress_line_mono = 0
    /\ texts = <<>>
    /\ vid_rc = NoCode
    /\ job_last = NoJobCall
    /\ FinishIdle
    /\ BatchIdle
    /\ WindowIdle

\* start_transcode_job (not a dry run): a left-over temp file is removed, the
\* Job gets its own FfmpegMon, the encoder is started
JobStart(spawns) ==
    /\ ~run.started
    /\ LET s == Start(FreshMon, NoProc, <<TempPath>>, spawns)
       IN  /\ mon' = s.mon
           /\ proc' = s.proc
    /\ files' = Del(files, TempPath)
    /\ progress_line_mono' = now
    /\ run' = [run EXCEPT !.started = TRUE]
    /\ mon_last' = [op |-> "start", ret |-> RetNone]
    /\ job_last' = [job_last EXCEPT !.start = now, !.mark = now]
    /\ UNCHANGED <<written, delivered, now, texts, vid_rc>>
    /\ UNCHANGED notJobVars

\* time passes while the job is followed
Tick ==
    /\ run.started
    /\ vid_rc = NoCode
    /\ now < MaxClock
    /\ now' = now + 1
    /\ UNCHANGED <<files, monVars, progress_line_mono, texts, vid_rc, job_last>>
    /\ UNCHANGED notJobVars

JobWrite(chunk) ==
    /\ proc.state = "running"
    /\ Cardinality({i \in 1..Len(written) : written[i] \in {"a", "F"}}) < MaxJobWrites
    /\ proc' = [proc EXCEPT !.pipe = @ \o chunk]
    /\ written' = written \o chunk
    /\ UNCHANGED <<files, mon, delivered, mon_last, run, jobVars>>
    /\ UNCHANGED notJobVars

JobOutput ==
    /\ ProcOutput
    /\ UNCHANGED jobVars

JobExit(code) ==
    /\ ProcExit(code)
    /\ UNCHANGED jobVars

\* one tick of the supervising loop while the job is active
JobProgress ==
    /\ run.started
    /\ vid_rc = NoCode
    /\ LET g == GetJobProgress(mon, proc, files, texts, progress_line_mono, vid_rc, now)
       IN  /\ mon' = g.mon
           /\ proc' = g.proc
           /\ files' = g.fs
           /\ texts' = g.texts
           /\ progress_line_mono' = g.mono
           /\ vid_rc' = g.rc
           /\ job_last' = [op |-> "progress", got |-> g.got,
                           quiet |-> now - progress_line_mono > ProgressSecsMax,
                           updates |-> job_last.updates +
                                       (IF g.got = RetProgress THEN 1 ELSE 0),
                           start |-> job_last.start,
                           mark |-> IF g.got = RetProgress THEN now
                                    ELSE job_last.mark,
                           spaced |-> IF g.got = RetProgress
                                      THEN now - job_last.mark >= ProgressThrottle
                                      ELSE job_last.spaced]
    /\ UNCHANGED <<written, delivered, mon_last, run, now>>
    /\ UNCHANGED notJobVars

NextJob ==
    \/ \E ok \in BOOLEAN : JobStart(ok)
    \/ Tick
    \/ \E c \in JobChunks : JobWrite(c)
    \/ JobOutput
    \/ \E c \in ExitCodes : JobExit(c)
    \/ JobProgress

SpecJob == InitJob /\ [][NextJob]_vars

\* C4: a tick of the supervising loop that finds no progress line accepted for
\* longer than progress_secs_max force-stops the job's monitor, delivers the
\* reserved code 254 as the job's final code, and the temp output file is gone.
C4_StallTimesOut ==
    (job_last.op = "progress" /\ job_last.quiet)
        => /\ job_last.got = RetCode(ProgressTimeout)
           /\ vid_rc = Code(ProgressTimeout)
           /\ mon.process = "None"
           /\ mon.return_code = Code(ProgressTimeout)
           /\ proc.state # "running"
           /\ TempPath \notin DOMAIN files

\* the encoder wrote a progress line, which was handed on, then nothing, and
\* was running when the loop gave up
C4_Witness ==
    /\ job_last.op = "progress"
    /\ job_last.quiet
    /\ job_last.updates = 1
    /\ written = <<"F", "LF">>
    /\ texts = <<TimeoutText>>
    /\ proc.code = Code(0 - SigTerm)

\* C27: every progress update get_job_progress returns for a job comes at
\* least 3 seconds after the previous one, the first at least 3 seconds after
\* the job was started.
C27_UpdatesThrottled ==
    /\ job_last.updates > 0 => job_last.spaced
    /\ job_last.start + job_last.updates * ProgressThrottle <= job_last.mark

\* the second update of a job that was started two seconds after the clock
\* began
C27_Witness ==
    /\ job_last.got = RetProgress
    /\ job_last.updates = 2
    /\ job_last.spaced
    /\ job_last.start = 2
    /\ now = job_last.start + 2 * ProgressThrottle

IsDiagnostic(line) == ~IsProgress(line)
NotTimeoutText(line) == line # TimeoutText

\* C35: the lines poll() hands to a tick of the supervising loop that do not
\* match the progress pattern are appended to the video's texts, each once
\* and in the order they were handed over, whether or not the tick gives up on
\* the job.
C35_DiagnosticsKept ==
    (run.started /\ vid_rc = NoCode) =>
        LET g == GetJobProgress(mon, proc, files, texts, progress_line_mono,
                                vid_rc, now)
        IN  g.got.kind # "raise" =>
              /\ SubSeq(g.texts, 1, Len(texts)) = texts
              /\ SelectSeq(SubSeq(g.texts, Len(texts) + 1, Len(g.texts)),
                           NotTimeoutText)
                     = SelectSeq(g.polled, IsDiagnostic)

\* the number of 'PROGRESS TIMEOUT' lines among the video's texts
Timeouts(tx) == Cardinality({i \in 1..Len(tx) : tx[i] = TimeoutText})

\* C32: a tick of the supervising loop whose first poll() hands back a line or
\* the encoder's exit code does not give up on the job: no 'PROGRESS TIMEOUT'
\* is added, the code 254 is not handed back, and an exit code that poll()
\* handed back is the job's final code.
C32_TimeoutOnlyWhenSilent ==
    [][(JobProgress /\ Poll(mon, proc).ret.kind \in {"line", "code"}) =>
           /\ Timeouts(texts') = Timeouts(texts)
           /\ job_last'.got # RetCode(ProgressTimeout)
           /\ Poll(mon, proc).ret.kind = "code" =>
                  /\ job_last'.got = Poll(mon, proc).ret
                  /\ vid_rc' = Code(Poll(mon, proc).ret.code)]_vars

----------------------------------------------------------------------------
(* Jobs of one video being finalized: SpecFinish                           *)

MaxJobs == 1          \* jobs run on the video
OrigSize == 20        \* MiB
OrigSizes == {OrigSize, OrigSize + 1}
TempSizes == {10, 18, 19, 24}
FinalCodes == {0, 1, 127, 254}

InitFinish ==
    /\ files \in {[p \in {Orig} |-> s] : s \in OrigSizes}
    /\ \E a \in {NoneVal, ErN(1), ErN(9), OPT} :
         cache_data = [p \in {Orig} |-> [GoodEntry(files[Orig]) EXCEPT !.anomaly = a]]
    /\ dirty_count = 0
    /\ cache_file = FullFile(cache_data)
    /\ tmp_file = NoFile
    /\ store_pc = "idle"
    /\ committed = cache_file
    /\ pending = EmptyMap
    /\ last = NoCall
    /\ streak = [p \in Paths |-> 0]
    /\ MonitorIdle
    /\ JobIdle
    /\ vid = [gb |-> Gb(files[Orig]), net |-> NoneVal, doit |-> "", basename1 |-> NoneVal]
    /\ opts \in [dry_run : BOOLEAN, sample : BOOLEAN, keep_backup : BOOLEAN,
                 allowed_codecs : {"x265", "x26*", "all"}, min_shrink_pct : {10, 30}]
    /\ auto \in {NoAuto, [NoAuto EXCEPT !.enabled = TRUE]}
    /\ jobs = NoJobs
    /\ fin = NoFinish
    /\ BatchIdle
    /\ WindowIdle

\* a job of the video ran and its final code arrived: the encoder left a temp
\* file of some size (always after a clean exit; none in a dry run, after a
\* spawn failure or a stop), and diagnostics
JobEnds(rc, temp, tx) ==
    /\ ~jobs.active
    /\ jobs.done < MaxJobs
    /\ fin.op = "finish" => fin.ret.kind # "raise"
    /\ Orig \in DOMAIN files
    /\ opts.dry_run => rc = 0 /\ temp = 0
    /\ ~opts.dry_run => /\ rc = 0 => temp # 0
                        /\ rc \in {127, 254} => temp = 0
    /\ rc = 0 => tx = <<>>
    /\ files' = IF temp = 0 THEN Del(files, TempPath) ELSE Put(files, TempPath, temp)
    /\ vid_rc' = Code(rc)
    /\ texts' = tx
    /\ vid' = [vid EXCEPT !.doit = IF rc = 0 THEN " OK" ELSE "ERR"]
    /\ jobs' = [jobs EXCEPT !.active = TRUE]
    /\ UNCHANGED <<cache_data, dirty_count, cache_file, tmp_file, opts, auto, fin>>
    /\ UNCHANGED notFinVars

\* advance_jobs finalizes the job: finish_transcode_job(success = (got == 0))
FinishJob(outcome, io, swap) ==
    /\ jobs.active
    /\ \E r \in {FinishTranscodeJob(
                    [c |-> CNow, fs |-> files, vid |-> vid, texts |-> texts,
                     auto |-> auto, ret |-> Returned(NoMeta)],
                    opts, vid_rc = Code(0), vid_rc, outcome, io, swap)} :
           /\ InstallC(r.c)
           /\ files' = r.fs
           /\ vid' = r.vid
           /\ texts' = r.texts
           /\ auto' = r.auto
           /\ fin' = [op |-> "finish", success |-> vid_rc = Code(0), ret |-> r.ret,
                      vgb |-> vid.gb, orig |-> files[Orig],
                      anomaly0 |-> cache_data[Orig].anomaly]
    /\ jobs' = [done |-> jobs.done + 1, active |-> FALSE]
    /\ UNCHANGED <<vid_rc, opts>>
    /\ UNCHANGED notFinVars

NextFinish ==
    \/ \E rc \in FinalCodes, temp \in TempSizes \cup {0},
          tx \in {<<>>, <<<<"X">>, <<"X">>, <<"X", "a">>>>} : JobEnds(rc, temp, tx)
    \/ \E o \in ProbeOutcomes, io \in StoreOutcomes, swap \in SwapOutcomes :
          FinishJob(o, io, swap)

SpecFinish == InitFinish /\ [][NextFinish]_vars

\* C3: after a clean encoder exit (not a dry run) whose size reduction is below
\* min_shrink_pct, when finish_transcode_job has returned the cached anomaly of
\* the original's path is 'OPT' and the original file is where and what it was.
C3_RejectedIsOPT ==
    (/\ fin.op = "finish" /\ fin.success /\ ~opts.dry_run
     /\ fin.ret.kind = "meta"
     /\ 100 * (fin.vgb - fin.ret.meta.gb) < opts.min_shrink_pct * fin.vgb)
        => /\ CachedAnomaly(Orig) = OPT
           /\ Orig \in DOMAIN files
           /\ files[Orig] = fin.orig
           /\ OrigBackup \notin DOMAIN files
           /\ StandardName \notin DOMAIN files

\* a clean exit outside a dry run whose temp file was probed
CleanProbed ==
    /\ fin.op = "finish" /\ ~jobs.active
    /\ fin.success /\ ~opts.dry_run
    /\ fin.ret.kind = "meta" /\ fin.ret.meta # NoMeta

\* the attempt was rejected: neither the temp file nor the renamed output exists
Rejected == TempPath \notin DOMAIN files /\ StandardName \notin DOMAIN files
Swapped == StandardName \in DOMAIN files /\ TempPath \notin DOMAIN files

C17_FailureCleansAndEscalates ==
    (fin.op = "finish" /\ ~jobs.active /\ vid_rc # Code(0)) =>
        /\ TempPath \notin DOMAIN files
        /\ fin.anomaly0 = NoneVal => CachedAnomaly(Orig) = ErN(1)
        /\ \A n \in 1..9 :
               fin.anomaly0 = ErN(n) => CachedAnomaly(Orig) = ErN(Min(n + 1, 9))

C17_Witness ==
    /\ fin.op = "finish"
    /\ ~jobs.active
    /\ fin.anomaly0 = ErN(1)
    /\ vid_rc = Code(ProgressTimeout)
    /\ TempPath \notin DOMAIN files
    /\ CachedAnomaly(Orig) = ErN(2)

\* C28: when a job is finalized as failed and the weighted sum of the decoder
\* error signals in its diagnostic lines (one signal counted per line) is 30
\* or more, a 'CORRUPT VIDEO' line has been appended to the diagnostics.
C28_CorruptionAnnotated ==
    (/\ fin.op = "finish" /\ ~jobs.active
     /\ fin.ret.kind = "meta"
     /\ vid_rc # Code(0)
     /\ TotalSeverity(texts) >= SeverityThreshold)
        => \E i \in 1..Len(texts) : texts[i] = CorruptText

\* C40: in a dry run, finalizing a job changes neither the metadata cache
\* (no anomaly written, nothing persisted) nor any file, whatever
\* min_shrink_pct is.
C40_DryRunChangesNothing ==
    [][(jobs.active /\ ~jobs'.active /\ opts.dry_run)
          => UNCHANGED <<cache_data, dirty_count, cache_file, tmp_file, files>>]_vars

----------------------------------------------------------------------------
(* Bulk population with worker threads and an interrupt: SpecBatch         *)

MaxWorkers == 2       \* max_workers of the call

InitBatch ==
    /\ files = [p \in BatchPaths |-> 1]
    /\ \E e \in {NoMeta, GoodEntry(1)} :
         cache_data = IF e = NoMeta THEN EmptyMap ELSE [p \in {"/v/a.mkv"} |-> e]
    /\ dirty_count \in {0, DirtyFlushAt - 1}
    /\ cache_file = IF cache_data = EmptyMap THEN NoFile ELSE FullFile(cache_data)
    /\ tmp_file = NoFile
    /\ store_pc = "idle"
    /\ committed = cache_file
    /\ pending = EmptyMap
    /\ last = NoCall
    /\ streak = [p \in Paths |-> 0]
    /\ MonitorIdle
    /\ JobIdle
    /\ FinishIdle
    /\ BatchIdle
    /\ WindowIdle

\* the paths of the call for which the cache holds a valid entry
ValidPaths(c, fs, paths) ==
    {paths[k] : k \in {i \in 1..Len(paths) : GetValidEntry(c, fs, paths[i]).meta # NoMeta}}

\* the call, its first pass and the submission of the probes
BatchStart(paths) ==
    /\ batch.pc = "idle"
    /\ LET fp == FirstPass(CNow, files, paths)
       IN  /\ InstallC(fp.c)
           /\ unlocked' = IF fp.c # CNow
                          THEN unlocked \cup {[by |-> "main", at |-> "first pass"]}
                          ELSE unlocked
           /\ IF fp.needed = <<>>
              THEN /\ batch' = [batch EXCEPT !.pc = "returned", !.results = fp.results,
                                             !.valid = ValidPaths(CNow, files, paths)]
                   /\ futs' = futs
              ELSE /\ batch' = [batch EXCEPT !.pc = "await", !.i = 1,
                                             !.needed = fp.needed,
                                             !.results = fp.results,
                                             !.valid = ValidPaths(CNow, files, paths)]
                   /\ futs' = [p \in BatchPaths |->
                                 IF \E k \in 1..Len(fp.needed) : fp.needed[k] = p
                                 THEN [futs[p] EXCEPT !.state = "pending"]
                                 ELSE futs[p]]
    /\ UNCHANGED <<lock, okseen>>
    /\ UNCHANGED notBatchVars

\* a worker thread takes a submitted probe
WorkerStart(p) ==
    /\ futs[p].state = "pending"
    /\ Cardinality({q \in BatchPaths : futs[q].state \in {"running", "incr"}}) < MaxWorkers
    /\ futs' = [futs EXCEPT ![p].state = "running"]
    /\ UNCHANGED <<cache_data, dirty_count, cache_file, tmp_file, batch, lock,
                   unlocked, okseen>>
    /\ UNCHANGED notBatchVars

\* probe_wrapper in a worker thread: _get_metadata_with_ffprobe.  A counted
\* failure stores the placeholder in the map and reads _dirty_count.
WorkerProbe(p, outcome) ==
    /\ futs[p].state = "running"
    /\ IF outcome = "ok"
       THEN /\ futs' = [futs EXCEPT ![p].state = "ok",
                             ![p].meta = [ProbeFields(files[p]) EXCEPT
                                             !.codec = CodecOf(p)]]
            /\ UNCHANGED <<cache_data, unlocked>>
       ELSE IF outcome \in CountedFailures
       THEN /\ cache_data' = IncrementProbeFailure(CNow, p).cache_data
            /\ futs' = [futs EXCEPT ![p].state = "incr", ![p].local = dirty_count]
            /\ unlocked' = IF lock = p THEN unlocked
                           ELSE unlocked \cup {[by |-> "worker", at |-> "cache_data"]}
       ELSE /\ futs' = [futs EXCEPT ![p].state =
                             IF outcome = "NoVideoStream" THEN "none" ELSE "exc"]
            /\ UNCHANGED <<cache_data, unlocked>>
    /\ UNCHANGED <<dirty_count, cache_file, tmp_file, batch, lock, okseen>>
    /\ UNCHANGED notBatchVars

\* the worker writes _dirty_count back, one more than it read, and returns None
WorkerDirtyWrite(p) ==
    /\ futs[p].state = "incr"
    /\ dirty_count' = futs[p].local + 1
    /\ futs' = [futs EXCEPT ![p].state = "none"]
    /\ unlocked' = IF lock = p THEN unlocked
                   ELSE unlocked \cup {[by |-> "worker", at |-> "_dirty_count"]}
    /\ UNCHANGED <<cache_data, cache_file, tmp_file, batch, lock, okseen>>
    /\ UNCHANGED notBatchVars

\* future.result() of the next future: a result is put in the map under the
\* lock; None makes _set_cache raise, which like an exception of the probe is
\* only counted
MergeTake ==
    /\ batch.pc = "await"
    /\ LET p == batch.needed[batch.i]
       IN  /\ futs[p].state \in {"ok", "none", "exc"}
           /\ IF futs[p].state = "ok"
              THEN /\ InstallC(SetCache(CNow, p, futs[p].meta))
                   /\ lock' = "main"
                   /\ okseen' = okseen \cup {p}
                   /\ batch' = [batch EXCEPT !.pc = "merged"]
              ELSE /\ batch' = MainNext(batch)
                   /\ UNCHANGED <<cache_data, dirty_count, cache_file, tmp_file,
                                  lock, okseen>>
    /\ UNCHANGED <<futs, unlocked>>
    /\ UNCHANGED notBatchVars

\* the result is recorded; at DirtyFlushAt unsaved changes store() is begun
MergeRecord ==
    /\ batch.pc = "merged"
    /\ LET p == batch.needed[batch.i]
           b == [batch EXCEPT !.results = Put(@, p, ComputeFields(futs[p].meta))]
       IN  IF dirty_count >= DirtyFlushAt
           THEN /\ batch' = [b EXCEPT !.pc = "dump", !.after = "next",
                                      !.keys = DOMAIN cache_data]
                /\ tmp_file' = PartialFile(EmptyMap)
                /\ lock' = lock
           ELSE /\ batch' = MainNext(b)
                /\ lock' = "free"
                /\ tmp_file' = tmp_file
    /\ UNCHANGED <<cache_data, dirty_count, cache_file, futs, unlocked, okseen>>
    /\ UNCHANGED notBatchVars

\* json.dump has walked the map and the file is replaced; a key added to the
\* map meanwhile makes the walk raise RuntimeError, which the merge loop
\* swallows and the finally block lets through
StoreEnd ==
    /\ batch.pc = "dump"
    /\ lock' = "free"
    /\ tmp_file' = NoFile
    /\ IF DOMAIN cache_data # batch.keys
       THEN /\ batch' = IF batch.after = "next" THEN MainNext(batch)
                        ELSE [batch EXCEPT !.pc = "crashed", !.status = Code(1)]
            /\ UNCHANGED <<cache_file, dirty_count>>
       ELSE /\ cache_file' = FullFile(cache_data)
            /\ dirty_count' = 0
            /\ batch' = IF batch.after = "next" THEN MainNext(batch)
                        ELSE AfterFinalStore(batch)
    /\ UNCHANGED <<cache_data, futs, unlocked, okseen>>
    /\ UNCHANGED notBatchVars

\* KeyboardInterrupt in the merge loop: the lock is released, a store() under
\* way removes its temp file, the futures not started are cancelled
Interrupt ==
    /\ \/ batch.pc \in {"await", "merged"}
       \/ batch.pc = "dump" /\ batch.after = "next"
    /\ lock' = "free"
    /\ tmp_file' = NoFile
    /\ futs' = CancelPending(futs)
    /\ batch' = [batch EXCEPT !.pc = "finally", !.exit_please = TRUE]
    /\ UNCHANGED <<cache_data, dirty_count, cache_file, unlocked, okseen>>
    /\ UNCHANGED notBatchVars

\* finally: executor.shutdown(wait=False, cancel_futures=True)
Shutdown ==
    /\ batch.pc = "finally"
    /\ futs' = CancelPending(futs)
    /\ batch' = [batch EXCEPT !.pc = "salvage", !.i = 1]
    /\ UNCHANGED <<cache_data, dirty_count, cache_file, tmp_file, lock, unlocked,
                   okseen>>
    /\ UNCHANGED notBatchVars

\* the salvage pass looks at the next future
Salvage ==
    /\ batch.pc = "salvage"
    /\ LET p == batch.needed[batch.i]
           take == futs[p].state = "ok" /\ p \notin DOMAIN batch.results
           b == IF take
                THEN [batch EXCEPT !.results = Put(@, p, ComputeFields(futs[p].meta))]
                ELSE batch
       IN  /\ InstallC(IF take THEN SetCache(CNow, p, futs[p].meta) ELSE CNow)
           /\ okseen' = IF futs[p].state = "ok" THEN okseen \cup {p} ELSE okseen
           /\ batch' = IF b.i < Len(b.needed) THEN [b EXCEPT !.i = @ + 1]
                       ELSE [b EXCEPT !.pc = "final store"]
    /\ UNCHANGED <<futs, lock, unlocked>>
    /\ UNCHANGED notBatchVars

\* with self._cache_lock: self.store()
FinalStore ==
    /\ batch.pc = "final store"
    /\ IF dirty_count > 0
       THEN /\ batch' = [batch EXCEPT !.pc = "dump", !.after = "exit",
                                      !.keys = DOMAIN cache_data]
            /\ tmp_file' = PartialFile(EmptyMap)
            /\ lock' = "main"
       ELSE /\ batch' = AfterFinalStore(batch)
            /\ UNCHANGED <<tmp_file, lock>>
    /\ UNCHANGED <<cache_data, dirty_count, cache_file, futs, unlocked, okseen>>
    /\ UNCHANGED notBatchVars

\* without an interrupt: the executor is left when its threads are done, then
\* a last store() and the results are returned
PostStore ==
    /\ batch.pc = "post"
    /\ \A p \in BatchPaths : futs[p].state \notin {"pending", "running", "incr"}
    /\ InstallC(Store(CNow, "ok"))
    /\ unlocked' = IF dirty_count > 0
                   THEN unlocked \cup {[by |-> "main", at |-> "last store"]}
                   ELSE unlocked
    /\ batch' = [batch EXCEPT !.pc = "returned", !.status = Code(0)]
    /\ UNCHANGED <<futs, lock, okseen>>
    /\ UNCHANGED notBatchVars

NextBatch ==
    \/ \E paths \in {<<"/v/a.mkv", "/v/b.mkv">>, <<"/v/b.mkv", "/v/a.mkv">>} :
          BatchStart(paths)
    \/ \E p \in BatchPaths : WorkerStart(p)
    \/ \E p \in BatchPaths, o \in ProbeOutcomes : WorkerProbe(p, o)
    \/ \E p \in BatchPaths : WorkerDirtyWrite(p)
    \/ MergeTake
    \/ MergeRecord
    \/ StoreEnd
    \/ Interrupt
    \/ Shutdown
    \/ Salvage
    \/ FinalStore
    \/ PostStore

SpecBatch == InitBatch /\ [][NextBatch]_vars

\* C8: during batch_get_or_probe every mutation of the in-memory map and of the
\* dirty counter, by the main thread or by a worker thread, is made while the
\* thread holds the cache mutex.
C8_MutationsUnderLock == unlocked = {}

\* C9: when the merge loop was interrupted and the process has ended, no probe
\* is left waiting to start, every result that was found done is in the
\* in-memory map and in the cache file, and the exit status is not zero.
C9_InterruptSalvages ==
    (batch.exit_please /\ batch.pc \in {"exited", "crashed"})
        => /\ \A p \in BatchPaths : futs[p].state # "pending"
           /\ \A p \in okseen :
                /\ p \in DOMAIN cache_data
                /\ cache_data[p] = futs[p].meta
                /\ cache_file.exists
                /\ p \in DOMAIN cache_file.data
                /\ cache_file.data[p] = futs[p].meta
           /\ batch.status \notin {NoCode, Code(0)}

\* C30: batch_get_or_probe submits no probe for a path that had a valid cache
\* entry when it was called: such a path is answered from the cache in the
\* first pass, and exactly the other paths are handed to the worker pool.
C30_HitsNotProbed ==
    batch.pc # "idle" =>
        \A p \in BatchPaths :
            IF p \in batch.valid
            THEN /\ futs[p].state = "unsubmitted"
                 /\ p \in DOMAIN batch.results
                 /\ batch.results[p] = ComputeFields(cache_data[p])
            ELSE futs[p].state # "unsubmitted"

\* one path was answered from the cache, the other one was probed
C30_Witness ==
    /\ batch.pc = "returned"
    /\ batch.valid = {"/v/a.mkv"}
    /\ futs["/v/b.mkv"].state = "ok"
    /\ "/v/b.mkv" \in DOMAIN batch.results

\* the merge loop is done with a probe result: it was recorded, a store() that
\* was due has ended, and the loop goes on
MergedOne ==
    /\ \/ batch.pc = "merged"
       \/ batch.pc = "dump" /\ batch.after = "next"
    /\ batch'.pc \in {"await", "finally"}
    /\ ~batch'.exit_please

\* C31: in the merge loop of batch_get_or_probe store() is called when the
\* dirty counter has reached DirtyFlushAt, so when the loop is done with a
\* merged probe result the counter of changes not yet saved is below
\* DirtyFlushAt.
C31_FlushAtHundred ==
    [][MergedOne => dirty_count' < DirtyFlushAt]_vars

\* C34: the map batch_get_or_probe returns has a record for every path of the
\* call: the cached one, the probe's result, or after a failed probe the
\* placeholder with the probe-failure anomaly.
C34_EveryPathAnswered ==
    batch.pc = "returned" =>
        \A p \in BatchPaths :
            /\ p \in DOMAIN batch.results
            /\ batch.results[p] # NoMeta
            /\ futs[p].state = "none" =>
                   StartsWith(batch.results[p].anomaly, <<"?", "P">>)

----------------------------------------------------------------------------
(* The window mode's main loop: SpecWindow                                  *)

InitWindow ==
    /\ files = EmptyMap
    /\ CacheIdle
    /\ streak = [p \in Paths |-> 0]
    /\ MonitorIdle
    /\ JobIdle
    /\ vid = [gb |-> 0, net |-> NoneVal, doit |-> "", basename1 |-> NoneVal]
    /\ opts \in {DefaultOpts, [DefaultOpts EXCEPT !.dry_run = TRUE]}
    /\ auto = NoAuto
    /\ jobs = NoJobs
    /\ fin = NoFinish
    /\ BatchIdle
    /\ \E d \in [Vids -> {"[X]", "[ ]", "?P9"}], a \in BOOLEAN :
         converter = [state |-> "select", not_help_state |-> "select",
                      help_mode |-> FALSE, auto_mode_enabled |-> a, job |-> NoJob,
                      vids |-> Vids, present |-> Vids, doit |-> d, doit_auto |-> d,
                      alive |-> {}, pc |-> "keyboard", search |-> {},
                      visible |-> Vids, help_from |-> "select"]

\* one pass of the main loop from the key to the call of advance_jobs
KeyboardHandled(key, v, dont, pat) ==
    /\ converter.pc = "keyboard"
    /\ converter.state # "exit"
    /\ key # "toggle" => v = 1 /\ ~dont
    /\ key # "search" => pat = {}
    /\ \E h \in {HandleKeyboard(converter, key, v, dont, pat)} :
         converter' = [h EXCEPT !.pc = "advance",
                                !.help_from =
                                    IF converter.state # "help" /\ h.state = "help"
                                    THEN converter.state ELSE @]
    /\ UNCHANGED notWindowVars

\* what get_job_progress hands to advance_jobs: a progress line or the return
\* code of ffmpeg
GotCodes == {NoCode, Code(0), Code(1), Code(ProgressTimeout)}

\* advance_jobs, and render_screen at the start of the next pass
JobsAdvanced(got, ended, start, auto_exit) ==
    /\ converter.pc = "advance"
    /\ converter.state # "exit"
    /\ opts.dry_run => got \in {NoCode, Code(0)}
    /\ ended = "raises" => got = Code(0) /\ ~opts.dry_run
    /\ converter' = Render([AdvanceJobs(converter, opts.dry_run, got, ended, start,
                                        auto_exit) EXCEPT !.pc = "keyboard"])
    /\ UNCHANGED notWindowVars

\* a video file is removed under the program; advance_jobs is the one place
\* that looks for the file, on the convert screen and for a video marked '[X]',
\* so the removal is placed where it can next be seen
FileVanishes(v) ==
    /\ converter.state = "convert"
    /\ converter.doit[v] = "[X]"
    /\ v \in converter.present
    /\ converter' = [converter EXCEPT !.present = @ \ {v}]
    /\ UNCHANGED notWindowVars

NextWindow ==
    \/ \E key \in Keys, v \in Vids, dont \in BOOLEAN, pat \in SearchHides :
          KeyboardHandled(key, v, dont, pat)
    \/ \E got \in GotCodes,
          ended \in {"returns", "raises"}, start \in {"returns", "raises"},
          auto_exit \in BOOLEAN : JobsAdvanced(got, ended, start, auto_exit)
    \/ \E v \in Vids : FileVanishes(v)

SpecWindow == InitWindow /\ [][NextWindow]_vars

InProgress == {v \in Vids : converter.doit[v] = "IP "}

\* C18: while the program runs at most one Job exists, it is the one self.job
\* holds, and the videos marked 'IP ' are exactly the video of that job: none
\* without a job, one with a job.
C18_OneJobOneInProgress ==
    converter.state # "exit" =>
        /\ Cardinality(converter.alive) <= 1
        /\ converter.alive = IF converter.job = NoJob THEN {} ELSE {converter.job.vid}
        /\ InProgress = converter.alive

\* a job runs while another marked video with its file waits
C18_Witness ==
    /\ converter.state = "convert"
    /\ converter.job # NoJob
    /\ converter.doit[converter.job.vid] = "IP "
    /\ \E v \in converter.vids \cap converter.present : converter.doit[v] = "[X]"

\* what finalizing the job with return code got leaves in the video's doit
DoneMark(got) ==
    IF got = Code(0) THEN IF opts.dry_run THEN "ok" ELSE " OK" ELSE "ERR"

\* C25: on the help screen advance_jobs goes on watching the running job: a
\* progress line leaves the job and the screen as they are, a return code
\* finalizes the job as the convert screen does (the Job is dropped, the video
\* is marked ' OK', 'ok' or 'ERR') and the help screen stays; no job is started
\* on the help screen.  Leaving the help screen gives the state in which it was
\* entered (from which the auto mode moves select on to convert in that pass).
C25_HelpKeepsJobWatched ==
    [][/\ converter.state = "help" =>
            /\ converter.not_help_state = converter.help_from
            /\ HelpSync([converter EXCEPT !.help_mode = FALSE]).state
                   = converter.help_from
       /\ (converter.state = "help" /\ converter'.state \notin {"help", "exit"}) =>
            \/ converter'.state = converter.help_from
            \/ /\ converter.help_from = "select"
               /\ converter.auto_mode_enabled
               /\ converter'.state = "convert"
       /\ (converter.state = "help" /\ converter.pc = "advance") =>
            \A got \in GotCodes, ended \in {"returns", "raises"} :
              JobsAdvanced(got, ended, "returns", FALSE) =>
                IF converter.job = NoJob \/ got = NoCode
                THEN converter' = [converter EXCEPT !.pc = "keyboard"]
                ELSE IF ended = "raises"
                THEN converter'.state = "exit"
                ELSE /\ converter'.state = "help"
                     /\ converter'.job = NoJob
                     /\ converter'.alive = {}
                     /\ converter'.doit =
                            [converter.doit EXCEPT ![converter.job.vid] = DoneMark(got)]
                     /\ converter'.doit =
                            JobFinalized([converter EXCEPT !.state = "convert"],
                                         opts.dry_run, got, ended).doit]_vars

\* a job that was started on the convert screen has ended while the help screen
\* was shown, and the help screen is still shown
C25_Witness ==
    /\ converter.state = "help"
    /\ converter.help_from = "convert"
    /\ converter.pc = "keyboard"
    /\ converter.job = NoJob
    /\ \E v \in converter.vids : converter.doit[v] = " OK"

----------------------------------------------------------------------------
(* The window mode's main loop with the encoder of its job: SpecAbort       *)
(* The encoder writes nothing to stderr and the clock stands still, so      *)
(* get_job_progress hands on what poll() returns; the encoder ends by       *)
(* itself with a failure only.                                              *)

VidPath(v) == IF v = 1 THEN "/v/a.mkv" ELSE IF v = 2 THEN "/v/b.mkv" ELSE "/v/c.mkv"
VidPaths == {VidPath(v) : v \in Vids}
AbortKeys == Keys \ {"search"}

\* every video was probed when the list was built: the cache and its file hold
\* an entry for each
InitAbort ==
    /\ files = [p \in VidPaths |-> 1]
    /\ cache_data = [p \in VidPaths |-> GoodEntry(1)]
    /\ dirty_count = 0
    /\ cache_file = FullFile(cache_data)
    /\ tmp_file = NoFile
    /\ store_pc = "idle"
    /\ committed = NoFile
    /\ pending = EmptyMap
    /\ last = NoCall
    /\ streak = [p \in Paths |-> 0]
    /\ MonitorIdle
    /\ JobIdle
    /\ FinishIdle
    /\ BatchIdle
    /\ \E d \in [Vids -> {"[X]", "[ ]"}], a \in BOOLEAN :
         converter = [state |-> "select", not_help_state |-> "select",
                      help_mode |-> FALSE, auto_mode_enabled |-> a, job |-> NoJob,
                      vids |-> Vids, present |-> Vids, doit |-> d, doit_auto |-> d,
                      alive |-> {}, pc |-> "keyboard", search |-> {},
                      visible |-> Vids, help_from |-> "select"]

\* one pass of the main loop from the key to the call of advance_jobs; the
\* quit key on the convert screen stops the monitor of the job
AbortKey(key, v, dont) ==
    /\ converter.pc = "keyboard"
    /\ converter.state # "exit"
    /\ key # "toggle" => v = 1 /\ ~dont
    /\ \E h \in {HandleKeyboard(converter, key, v, dont, {})} :
         converter' = [h EXCEPT !.pc = "advance",
                                !.help_from =
                                    IF converter.state # "help" /\ h.state = "help"
                                    THEN converter.state ELSE @]
    /\ IF QuitStops(HelpSync(converter), key)
       THEN \E st \in {Stop(mon, proc, files, 255)} :
              /\ mon' = st.mon
              /\ proc' = st.proc
              /\ files' = st.fs
       ELSE UNCHANGED <<mon, proc, files>>
    /\ UNCHANGED <<cache_data, dirty_count, cache_file, tmp_file, store_pc,
                   committed, pending, last, streak>>
    /\ UNCHANGED <<written, delivered, mon_last, run>>
    /\ UNCHANGED <<jobVars, finVars, batchVars>>

\* advance_jobs with finish_transcode_job for a failed job (the temp file is
\* removed, the anomaly 'Err' is set) and start_transcode_job (a left-over
\* temp file is removed, the Job gets a new FfmpegMon, the encoder is started)
AbortAdvance(auto_exit) ==
    /\ converter.pc = "advance"
    /\ converter.state # "exit"
    /\ \E r \in {Poll(mon, proc)} :
       \E got \in {IF converter.job # NoJob /\ r.ret.kind = "code"
                   THEN Code(r.ret.code) ELSE NoCode} :
       \E o \in {AdvanceJobs(converter, FALSE, got, "returns", "returns", auto_exit)} :
         LET watched == converter.job # NoJob /\ converter.state \in {"convert", "help"}
             done == watched /\ got # NoCode
             fs1 == IF done THEN Del(files, TempPath) ELSE files
             c1 == IF done
                   THEN SetAnomaly(CNow, fs1, VidPath(converter.job.vid), Err, "ok").c
                   ELSE CNow
             begun == o.job # NoJob /\ (done \/ converter.job = NoJob)
         IN  /\ converter' = Render([o EXCEPT !.pc = "keyboard"])
             /\ InstallC(c1)
             /\ IF begun
                THEN /\ mon' = Start(FreshMon, NoProc, <<TempPath>>, TRUE).mon
                     /\ proc' = Start(FreshMon, NoProc, <<TempPath>>, TRUE).proc
                     /\ files' = Del(fs1, TempPath)
                ELSE /\ mon' = IF watched THEN r.mon ELSE mon
                     /\ proc' = IF watched THEN r.proc ELSE proc
                     /\ files' = fs1
    /\ UNCHANGED <<store_pc, committed, pending, last, streak>>
    /\ UNCHANGED <<written, delivered, mon_last, run>>
    /\ UNCHANGED <<jobVars, finVars, batchVars>>

NextAbort ==
    \/ \E key \in AbortKeys, v \in Vids, dont \in BOOLEAN : AbortKey(key, v, dont)
    \/ \E auto_exit \in BOOLEAN : AbortAdvance(auto_exit)
    \/ ProcOutput
    \/ ProcExit(1)

SpecAbort == InitAbort /\ [][NextAbort]_vars

\* C37: the quit key on the convert screen with a job terminates the encoder
\* if it runs, leaves no file at the temp path and no process with the
\* monitor, marks the job's video '[X]' again, drops the job, goes to the
\* select screen, and leaves the cache map, its dirty counter and the cache
\* file as they were.
C37_AbortStopsAndKeepsCache ==
    [][(converter.pc = "keyboard" /\ converter.state = "convert"
            /\ converter.job # NoJob
            /\ AbortKey("quit", 1, FALSE)) =>
           /\ proc'.state = "exited"
           /\ proc.state = "running" => proc'.code = Code(0 - SigTerm)
           /\ mon'.process = "None"
           /\ TempPath \notin DOMAIN files'
           /\ converter'.doit =
                  [converter.doit EXCEPT ![converter.job.vid] = "[X]"]
           /\ converter'.job = NoJob
           /\ converter'.alive = {}
           /\ converter'.state = "select"
           /\ cache_data' = cache_data
           /\ dirty_count' = dirty_count
           /\ cache_file' = cache_file]_vars

\* the running encoder of the second video was stopped after it had written
\* output, and the first video had failed by itself before and got 'Er1'
C37_Witness ==
    /\ converter.state = "select"
    /\ converter.pc = "advance"
    /\ converter.job = NoJob
    /\ converter.doit[2] = "[X]"
    /\ converter.doit[1] = "ERR"
    /\ proc.code = Code(0 - SigTerm)
    /\ mon.return_code = Code(255)
    /\ TempPath \notin DOMAIN files
    /\ cache_data[VidPath(1)].anomaly = ErN(1)
    /\ cache_data[VidPath(2)].anomaly = NoneVal

----------------------------------------------------------------------------
(* The window mode's main loop over a list built by append_vid: SpecSelect  *)

\* the anomalies a cache entry is listed with
ListedAnomalies ==
    {NoneVal, ErN(1), ErN(2), ErN(9), OPT, SKP, DUN, PFail(1), PFail(9)}

\* the anomaly of the entry append_vid read for the video (vid.probe0)
ListedAnomaly(v) == cache_data[VidPath(v)].anomaly

\* 'not anomaly or anomaly in ('Er1',)'
AutoSelectable(a) == a = NoneVal \/ a = ErN(1)

\* the list as append_vid built it from the cache: one video carries any of
\* the anomalies, the others none
InitSelect ==
    /\ files = [p \in VidPaths |-> 1]
    /\ \E s \in Vids, a \in ListedAnomalies :
         cache_data = [p \in VidPaths |->
                          [GoodEntry(1) EXCEPT !.anomaly =
                               IF p = VidPath(s) THEN a ELSE NoneVal]]
    /\ dirty_count = 0
    /\ cache_file = FullFile(cache_data)
    /\ tmp_file = NoFile
    /\ store_pc = "idle"
    /\ committed = NoFile
    /\ pending = EmptyMap
    /\ last = NoCall
    /\ streak = [p \in Paths |-> 0]
    /\ MonitorIdle
    /\ JobIdle
    /\ FinishIdle
    /\ BatchIdle
    /\ \E sel \in [Vids -> BOOLEAN], a \in BOOLEAN :
         LET d == [v \in Vids |-> AppendVid(ListedAnomaly(v), sel[v])]
         IN  converter = [state |-> "select", not_help_state |-> "select",
                          help_mode |-> FALSE, auto_mode_enabled |-> a,
                          job |-> NoJob, vids |-> Vids, present |-> Vids,
                          doit |-> d, doit_auto |-> d, alive |-> {},
                          pc |-> "keyboard", search |-> {}, visible |-> Vids,
                          help_from |-> "select"]

NextSelect ==
    \/ \E key \in AbortKeys, v \in Vids, dont \in BOOLEAN :
          KeyboardHandled(key, v, dont, {})
    \/ \E got \in {NoCode, Code(0), Code(1)}, auto_exit \in BOOLEAN :
          JobsAdvanced(got, "returns", "returns", auto_exit)

SpecSelect == InitSelect /\ [][NextSelect]_vars

\* the list shows the anomaly of every video that has one other than Er1
\* until a job of the video was finalized, and a marker with a leading '?'
\* stays for good
MarksShown ==
    \A v \in Vids :
        /\ converter.doit_auto[v] = "[X]" => AutoSelectable(ListedAnomaly(v))
        /\ ~AutoSelectable(ListedAnomaly(v))
              /\ converter.doit_auto[v] \notin {" OK", "ERR"}
           => /\ converter.doit_auto[v] = MarkText(ListedAnomaly(v))
              /\ converter.doit[v] \in {MarkText(ListedAnomaly(v)), "[X]", "IP "}
        /\ StartsWith(ListedAnomaly(v), <<"?">>)
           => /\ converter.doit[v] = MarkText(ListedAnomaly(v))
              /\ converter.job # JobOf(v)

\* a job is started for a checked video only, and a video that is not auto
\* selected gets its check from the toggle key alone
CheckedByToggle ==
    \A v \in Vids :
        /\ converter'.doit[v] = "IP " /\ converter.doit[v] # "IP "
           => converter.doit[v] = "[X]"
        /\ converter'.doit[v] = "[X]" /\ converter.doit[v] \notin {"[X]", "IP "}
              /\ converter.doit_auto[v] # "[X]"
           => /\ KeyboardHandled("toggle", v, FALSE, {})
              /\ converter.state = "select"
              /\ converter.doit[v] \notin ProbeFailureMarks

\* C39: a video is '[X]' by itself only if its cached anomaly is absent or
\* Er1; with any other anomaly the list shows the anomaly, the video is
\* converted only after the toggle key checked it, and the toggle key leaves
\* a marker that starts with '?' as it is.
C39_AnomalyBlocksAutoSelection == []MarksShown /\ [][CheckedByToggle]_vars

\* a video listed with Er2 that was checked by hand is being converted
C39_Witness ==
    /\ ListedAnomaly(1) = ErN(2)
    /\ converter.doit[1] = "IP "
    /\ converter.doit_auto[1] = "Er2"
    /\ converter.job = JobOf(1)

============================================================================
